---- MODULE Spec2Model ----
(***************************************************************************)
(* A model of json-exporter's configuration compiler (src/src/prepare.rs,  *)
(* src/src/tmpl.rs, src/src/filters.rs) and of its extraction engine       *)
(* (src/src/convert.rs).                                                   *)
(*                                                                         *)
(* Text is modelled character by character: a string is a sequence of      *)
(* one-character strings, so that the template parser, the name join and   *)
(* the label escaping are computed the way the code computes them.         *)
(***************************************************************************)
EXTENDS Integers, Sequences, FiniteSets, TLC

\* ------------------------------------------------------------------------
\* Characters and strings
\* ------------------------------------------------------------------------

\* With(v, K) is K(v): v is computed once and named in K
With(v, K(_)) == K(v)

DigitChars == <<"0", "1", "2", "3", "4", "5", "6", "7", "8", "9">>

DigitSet == {DigitChars[i] : i \in 1..10}

\* char::is_whitespace for the characters the model uses
SpaceSet == {" ", "\t", "\n", "\r"}

DigitVal(c) == (CHOOSE i \in 1..10 : DigitChars[i] = c) - 1

Drop(s, n) == SubSeq(s, n + 1, Len(s))

Take(s, n) == SubSeq(s, 1, n)

\* The length of the longest prefix of s made of characters of set
SpanLen(s, set) ==
    IF \A i \in 1..Len(s) : s[i] \in set THEN Len(s)
    ELSE (CHOOSE i \in 1..Len(s) :
             s[i] \notin set /\ \A j \in 1..(i - 1) : s[j] \in set) - 1

\* The length of the longest prefix of s made of characters outside set
SpanNotLen(s, set) ==
    IF \A i \in 1..Len(s) : s[i] \notin set THEN Len(s)
    ELSE (CHOOSE i \in 1..Len(s) :
             s[i] \in set /\ \A j \in 1..(i - 1) : s[j] \notin set) - 1

\* str::trim_end
TrimEnd(s) ==
    IF \A i \in 1..Len(s) : s[i] \in SpaceSet THEN <<>>
    ELSE Take(s, CHOOSE i \in 1..Len(s) :
                     s[i] \notin SpaceSet
                     /\ \A j \in (i + 1)..Len(s) : s[j] \in SpaceSet)

RECURSIVE DecimalValue(_)
\* str::parse on a run of digits, before the range check
DecimalValue(ds) ==
    IF ds = <<>> THEN 0
    ELSE 10 * DecimalValue(Take(ds, Len(ds) - 1)) + DigitVal(ds[Len(ds)])

RECURSIVE ToDecimal(_)
\* u64::to_string / write!("{}", ix)
ToDecimal(n) ==
    IF n < 10 THEN <<DigitChars[n + 1]>>
    ELSE Append(ToDecimal(n \div 10), DigitChars[(n % 10) + 1])

\* u32::MAX in decimal: str::parse::<u32> fails above it
U32MaxDigits == <<"4", "2", "9", "4", "9", "6", "7", "2", "9", "5">>

\* whether a run of digits denotes a number that fits u32, decided on the
\* digits (leading zeros are accepted by str::parse)
FitsU32(ds) ==
    With(Drop(ds, SpanLen(ds, {"0"})), LAMBDA sig :
        \/ Len(sig) < 10
        \/ /\ Len(sig) = 10
           /\ \/ sig = U32MaxDigits
              \/ \E i \in 1..10 :
                    /\ \A j \in 1..(i - 1) : sig[j] = U32MaxDigits[j]
                    /\ DigitVal(sig[i]) < DigitVal(U32MaxDigits[i]))

\* ------------------------------------------------------------------------
\* src/src/tmpl.rs: the template parser (nom combinators)
\* ------------------------------------------------------------------------

\* IResult: Err(nom::Err::Error) or Ok((rest, out))
Fail == [ok |-> FALSE]

Ok(rest, out) == [ok |-> TRUE, rest |-> rest, out |-> out]

PathPart(ix) == [kind |-> "PathPart", ix |-> ix]

Selector(path) == [kind |-> "Selector", path |-> path]

Text(t) == [kind |-> "Text", text |-> t]

Var(v) == [kind |-> "Var", var |-> v]

\* nom::bytes::complete::tag
tag(t, input) ==
    IF Len(input) >= Len(t) /\ Take(input, Len(t)) = t
    THEN Ok(Drop(input, Len(t)), t)
    ELSE Fail

\* nom::character::complete::multispace0
multispace0(input) ==
    With(SpanLen(input, SpaceSet), LAMBDA n : Ok(Drop(input, n), Take(input, n)))

\* nom::character::complete::digit1
digit1(input) ==
    With(SpanLen(input, DigitSet), LAMBDA n :
        IF n = 0 THEN Fail ELSE Ok(Drop(input, n), Take(input, n)))

uint(input) ==
    With(digit1(input), LAMBDA r :
        IF ~r.ok THEN Fail
        ELSE IF ~FitsU32(r.out) THEN Fail
        ELSE Ok(r.rest, DecimalValue(r.out)))

var_ix(input) ==
    With(uint(input), LAMBDA r :
        IF r.ok THEN Ok(r.rest, PathPart(r.out)) ELSE Fail)

selector(input) ==
    IF tag(<<"$">>, input).ok THEN Ok(<<>>, TrimEnd(input)) ELSE Fail

var_ident(input) ==
    With(selector(input), LAMBDA r :
        IF r.ok THEN Ok(r.rest, Selector(r.out)) ELSE Fail)

var(input) ==
    With(var_ix(input), LAMBDA r : IF r.ok THEN r ELSE var_ident(input))

\* ws(var): the only parser the code wraps in ws
ws_var(input) ==
    With(var(multispace0(input).rest), LAMBDA r :
        IF ~r.ok THEN Fail
        ELSE Ok(multispace0(r.rest).rest, r.out))

\* var_placeholder once `${`, the text up to `}` and `}` are read: the
\* input ws(var) leaves unread in var_str is dropped
var_placeholder_body(var_str, rest) ==
    With(ws_var(var_str), LAMBDA r :
        IF r.ok THEN Ok(rest, Var(r.out)) ELSE Fail)

var_placeholder(input) ==
    With(tag(<<"$", "{">>, input), LAMBDA open :
        IF ~open.ok THEN Fail
        ELSE With(SpanNotLen(open.rest, {"}"}), LAMBDA n :
            IF n = 0 \/ ~tag(<<"}">>, Drop(open.rest, n)).ok THEN Fail
            ELSE var_placeholder_body(Take(open.rest, n),
                                      Drop(open.rest, n + 1))))

var_simple_placeholder(input) ==
    IF ~tag(<<"$">>, input).ok THEN Fail
    ELSE With(var_ix(Drop(input, 1)), LAMBDA r :
            IF r.ok THEN Ok(r.rest, Var(r.out)) ELSE Fail)

text_placeholder(input) ==
    With(SpanNotLen(input, {"$"}), LAMBDA n :
        IF n = 0 THEN Fail ELSE Ok(Drop(input, n), Text(Take(input, n))))

\* alt((var_placeholder, var_simple_placeholder, text_placeholder))
any_placeholder(input) ==
    With(var_placeholder(input), LAMBDA a :
        IF a.ok THEN a
        ELSE With(var_simple_placeholder(input), LAMBDA b :
                IF b.ok THEN b ELSE text_placeholder(input)))

RECURSIVE many_placeholders(_, _)
\* many1's loop: it stops, successfully, at the first input no alternative
\* accepts, and fails if that is its first input
many_placeholders(input, acc) ==
    With(any_placeholder(input), LAMBDA r :
        IF ~r.ok THEN (IF acc = <<>> THEN Fail ELSE Ok(input, acc))
        ELSE many_placeholders(r.rest, Append(acc, r.out)))

string_with_placeholders(input) == many_placeholders(input, <<>>)

\* ------------------------------------------------------------------------
\* serde_json::Value and the jsonpath selector
\* ------------------------------------------------------------------------

Null == [kind |-> "null"]

\* a number: an integer as parsed from the document, or the f64 a filter
\* produced (float), which prints with a fraction
Number(n) == [kind |-> "number", n |-> n, float |-> FALSE]

Float(n) == [kind |-> "number", n |-> n, float |-> TRUE]

Bool(b) == [kind |-> "bool", b |-> b]

String(s) == [kind |-> "string", s |-> s]

Array(items) == [kind |-> "array", items |-> items]

\* an object's fields are a sequence of <<key, value>> pairs in key order
\* (serde_json's map is a BTreeMap)
Object(fields) == [kind |-> "object", fields |-> fields]

Root == [kind |-> "Root"]

Key(k) == [kind |-> "Key", key |-> k]

Index(i) == [kind |-> "Index", ix |-> i]

Match(value, path) == [value |-> value, path |-> path]

KeyStep(k) == [kind |-> "key", key |-> k]

WildStep == [kind |-> "wild"]

\* the characters of a key in a selector expression
IdentChars ==
    {"a", "b", "c", "d", "e", "k", "m", "n", "p", "q", "x", "y", "_"} \cup DigitSet

RECURSIVE SelectorSteps(_)
\* jsonpath::Selector::new on what follows the leading `$`: a sequence of
\* `.key` and `.*` steps
SelectorSteps(expr) ==
    IF expr = <<>> THEN [ok |-> TRUE, steps |-> <<>>]
    ELSE IF expr[1] # "." THEN [ok |-> FALSE]
    ELSE With(SpanNotLen(Drop(expr, 1), {"."}), LAMBDA n :
        IF n = 0 THEN [ok |-> FALSE]
        ELSE With(SelectorSteps(Drop(expr, n + 1)), LAMBDA more :
            With(SubSeq(expr, 2, n + 1), LAMBDA seg :
                IF ~more.ok THEN [ok |-> FALSE]
                ELSE IF seg = <<"*">>
                THEN [ok |-> TRUE, steps |-> <<WildStep>> \o more.steps]
                ELSE IF \A i \in 1..n : seg[i] \in IdentChars
                THEN [ok |-> TRUE, steps |-> <<KeyStep(seg)>> \o more.steps]
                ELSE [ok |-> FALSE])))

SelectorNew(expression) ==
    IF expression = <<>> \/ expression[1] # "$" THEN [ok |-> FALSE]
    ELSE SelectorSteps(Drop(expression, 1))

JsonSelector_new(expression) ==
    With(IF expression = <<>> THEN <<"$">> ELSE <<"$", ".">> \o expression,
         LAMBDA expr :
            With(SelectorNew(expr), LAMBDA sel :
                IF sel.ok
                THEN [ok |-> TRUE, expression |-> expr, selector |-> sel.steps]
                ELSE [ok |-> FALSE]))

RECURSIVE FindFrom(_, _, _), FindEach(_, _, _, _)
\* the matches of steps below value, in document order; path is the path
\* followed so far
FindFrom(steps, value, path) ==
    IF steps = <<>> THEN <<Match(value, path)>>
    ELSE IF Head(steps).kind = "key"
    THEN IF value.kind = "object"
         /\ \E i \in 1..Len(value.fields) : value.fields[i][1] = Head(steps).key
         THEN FindFrom(Tail(steps),
                       value.fields[CHOOSE j \in 1..Len(value.fields) :
                                       value.fields[j][1] = Head(steps).key][2],
                       Append(path, Key(Head(steps).key)))
         ELSE <<>>
    ELSE IF value.kind \in {"object", "array"}
         THEN FindEach(Tail(steps), value, path, 1)
         ELSE <<>>

\* the wildcard step over the children of value from the i-th on
FindEach(steps, value, path, i) ==
    IF value.kind = "object"
    THEN IF i > Len(value.fields) THEN <<>>
         ELSE FindFrom(steps, value.fields[i][2],
                       Append(path, Key(value.fields[i][1])))
              \o FindEach(steps, value, path, i + 1)
    ELSE IF i > Len(value.items) THEN <<>>
         ELSE FindFrom(steps, value.items[i], Append(path, Index(i - 1)))
              \o FindEach(steps, value, path, i + 1)

\* JsonSelector::find: each match's path starts at the value searched
JsonSelector_find(self, root) == FindFrom(self.selector, root, <<Root>>)

\* ------------------------------------------------------------------------
\* src/src/filters.rs
\* ------------------------------------------------------------------------

FilterOk(v) == [ok |-> TRUE, value |-> v]

FilterErr == [ok |-> FALSE]

\* Value::from(f64): a finite float is a number
FromF64(n) == Float(n)

Multiply_apply(self, value) ==
    IF value.kind = "number" THEN FilterOk(FromF64(value.n * self.factor))
    ELSE FilterErr

\* the quotient is exact for the divisors the model draws (0 and 1); a
\* division by zero gives an infinity or a NaN, which Value::from turns
\* into null
Divide_apply(self, value) ==
    IF value.kind = "number"
    THEN IF self.denominator = 0 THEN FilterOk(Null)
         ELSE FilterOk(FromF64(value.n \div self.denominator))
    ELSE FilterErr

Const_apply(self, value) == FilterOk(self.value)

\* arrays and objects never compare equal
Equal_apply(self, value) ==
    FilterOk(Bool(/\ value.kind \in {"string", "number", "bool", "null"}
                  /\ self.value = value))

\* dyn Filter: the call dispatched on the filter's type
Filter_apply(self, value) ==
    CASE self.kind = "Multiply" -> Multiply_apply(self, value)
      [] self.kind = "Divide" -> Divide_apply(self, value)
      [] self.kind = "Const" -> Const_apply(self, value)
      [] self.kind = "Equal" -> Equal_apply(self, value)

\* single_arg_f64, on the argument shapes the model draws: a number, a
\* one-element list of a number, or anything else
single_arg_f64(args) ==
    IF args.kind = "number" THEN [ok |-> TRUE, v |-> args.n]
    ELSE IF args.kind = "array" /\ Len(args.items) = 1
            /\ args.items[1].kind = "number"
    THEN [ok |-> TRUE, v |-> args.items[1].n]
    ELSE [ok |-> FALSE]

Multiply_create(args) ==
    With(single_arg_f64(args), LAMBDA a :
        IF a.ok THEN [ok |-> TRUE, v |-> [kind |-> "Multiply", factor |-> a.v]]
        ELSE [ok |-> FALSE])

Divide_create(args) ==
    With(single_arg_f64(args), LAMBDA a :
        IF a.ok THEN [ok |-> TRUE, v |-> [kind |-> "Divide", denominator |-> a.v]]
        ELSE [ok |-> FALSE])

\* ------------------------------------------------------------------------
\* src/src/prepare.rs: the configuration compiler
\* ------------------------------------------------------------------------

\* Option<T>
None == [some |-> FALSE]

Some(v) == [some |-> TRUE, v |-> v]

\* Option::or
OptionOr(a, b) == IF a.some THEN a ELSE b

\* Result<T, AnyhowError>
Err == [ok |-> FALSE]

Done(v) == [ok |-> TRUE, v |-> v]

PText(t) == [kind |-> "Text", text |-> t]

VarIx(ix) == [kind |-> "VarIx", ix |-> ix]

VarIdent(sel) == [kind |-> "VarIdent", selector |-> sel]

PreparedPlaceholder_create_from(placeholder) ==
    IF placeholder.kind = "Text" THEN Done(PText(placeholder.text))
    ELSE IF placeholder.var.kind = "PathPart"
    THEN Done(VarIx(placeholder.var.ix))
    ELSE With(JsonSelector_new(placeholder.var.path), LAMBDA sel :
            IF sel.ok THEN Done(VarIdent(sel)) ELSE Err)

\* collect::<Result<Vec<_>, _>>()
Collect(rs) ==
    IF \A i \in 1..Len(rs) : rs[i].ok
    THEN Done([i \in 1..Len(rs) |-> rs[i].v])
    ELSE Err

\* the value is the template's node list (TemplateProcessor.tmpl)
TemplateProcessor_create_from(tmpl) ==
    IF tmpl = <<>> THEN Done(<<>>)
    ELSE With(string_with_placeholders(tmpl), LAMBDA parsed :
            IF ~parsed.ok THEN Err
            \* `.1`: the input the parser left unread is dropped
            ELSE Collect([i \in 1..Len(parsed.out) |->
                             PreparedPlaceholder_create_from(parsed.out[i])]))

PreparedLabel_try_from(label) ==
    With(TemplateProcessor_create_from(label.value), LAMBDA vp :
        IF vp.ok THEN Done([name |-> label.name, value_processor |-> vp.v])
        ELSE Err)

PreparedLabels_try_from(labels) ==
    Collect([i \in 1..Len(labels) |-> PreparedLabel_try_from(labels[i])])

Filter_prepare(self) ==
    IF self.name \in {<<"m", "u", "l">>,
                      <<"m", "u", "l", "t", "i", "p", "l", "y">>}
    THEN Multiply_create(self.args)
    ELSE IF self.name \in {<<"d", "i", "v">>,
                           <<"d", "i", "v", "i", "d", "e">>}
    THEN Divide_create(self.args)
    ELSE Err

\* a compiler that forgets the parent's type
metric_type_own(metric_type, parent_metric_type) == metric_type

\* metric.metric_type.or(parent_metric_type)
metric_type_or(metric_type, parent_metric_type) ==
    OptionOr(metric_type, parent_metric_type)

\* metric.name.map(TemplateProcessor::create_from).transpose()?
name_processor_create_from(name) ==
    IF name.some
    THEN With(TemplateProcessor_create_from(name.v), LAMBDA t :
            IF t.ok THEN Done(Some(t.v)) ELSE Err)
    ELSE Done(None)

\* the PreparedMetric of its parts, each `?` returning the part's error
PreparedMetric_new(metric, metric_type, name_processor, sel, prepared_filters, labels, metrics) ==
    IF name_processor.ok /\ sel.ok /\ prepared_filters.ok /\ labels.ok /\ metrics.ok
    THEN Done([selector |-> sel,
               metric_type |-> metric_type,
               name |-> metric.name,
               name_processor |-> name_processor.v,
               filters |-> prepared_filters.v,
               labels |-> labels.v,
               metrics |-> metrics.v])
    ELSE Err

RECURSIVE PreparedMetric_create_from(_, _), PreparedMetrics_create_from(_, _)
PreparedMetric_create_from(metric, parent_metric_type) ==
    PreparedMetric_new(
        metric,
        metric_type_or(metric.metric_type, parent_metric_type),
        name_processor_create_from(metric.name),
        JsonSelector_new(metric.path),
        Collect([i \in 1..Len(metric.modifiers) |->
                    Filter_prepare(metric.modifiers[i])]),
        PreparedLabels_try_from(metric.labels),
        PreparedMetrics_create_from(
            metric.metrics,
            metric_type_or(metric.metric_type, parent_metric_type)))

PreparedMetrics_create_from(metrics, metric_type) ==
    Collect([i \in 1..Len(metrics) |->
                PreparedMetric_create_from(metrics[i], metric_type)])

\* PreparedEndpoint::create_from, without the endpoint's URL
PreparedEndpoint_create_from(endpoint) ==
    With(PreparedMetrics_create_from(endpoint.metrics, None), LAMBDA metrics :
        IF metrics.ok THEN Done([name |-> endpoint.name, metrics |-> metrics.v])
        ELSE Err)

\* ------------------------------------------------------------------------
\* Maps: BTreeMap<String, String> and HashMap<String, MetricType>
\* ------------------------------------------------------------------------

EmptyMap == [k \in {} |-> <<>>]

MapGet(m, k) == IF k \in DOMAIN m THEN Some(m[k]) ELSE None

MapInsert(m, k, v) == [x \in DOMAIN m \cup {k} |-> IF x = k THEN v ELSE m[x]]

\* the characters of the model in code-point order
CharOrder ==
    <<"\t", "\n", "\r", " ", "\"", "$", "*", ".",
      "0", "1", "2", "3", "4", "5", "6", "7", "8", "9",
      "\\", "_", "a", "b", "c", "d", "e", "g", "i", "k", "l", "m", "n", "p",
      "q", "t", "u", "v", "x", "y", "{", "}">>

CharCode(c) == CHOOSE i \in 1..Len(CharOrder) : CharOrder[i] = c

\* String's Ord: lexicographic on the characters
StrLess(a, b) ==
    \E i \in 1..(Len(b)) :
        /\ i <= Len(a) + 1
        /\ \A j \in 1..(i - 1) : a[j] = b[j]
        /\ \/ i = Len(a) + 1
           \/ CharCode(a[i]) < CharCode(b[i])

RECURSIVE SortedKeys_descending(_)
\* an iteration from the greatest key down
SortedKeys_descending(keys) ==
    IF keys = {} THEN <<>>
    ELSE With(CHOOSE x \in keys : \A y \in keys \ {x} : StrLess(y, x),
              LAMBDA m : <<m>> \o SortedKeys_descending(keys \ {m}))

RECURSIVE SortedKeys(_)
\* the keys of a BTreeMap in iteration order
SortedKeys(keys) ==
    IF keys = {} THEN <<>>
    ELSE With(CHOOSE x \in keys : \A y \in keys \ {x} : StrLess(x, y),
              LAMBDA m : <<m>> \o SortedKeys(keys \ {m}))

\* ------------------------------------------------------------------------
\* src/src/convert.rs: resolution of one match
\* ------------------------------------------------------------------------

Warn(msg) == [level |-> "Warn", msg |-> msg]

\* Number's Display: an f64 prints with its fraction
NumberText(v) ==
    IF v.float THEN ToDecimal(v.n) \o <<".", "0">> ELSE ToDecimal(v.n)

\* bool::to_string
BoolText(b) == IF b THEN <<"t", "r", "u", "e">> ELSE <<"f", "a", "l", "s", "e">>

\* a lookup one step too far
path_get_next(path, path_ix) ==
    IF path_ix + 3 <= Len(path) THEN Some(path[path_ix + 3]) ELSE None

\* found.path.get(path_ix + 1): the path is counted from 0
path_get(path, path_ix) ==
    IF path_ix + 2 <= Len(path) THEN Some(path[path_ix + 2]) ELSE None

\* the text of one path step
PathStepText(step, path_ix) ==
    IF ~step.some
    THEN [ok |-> FALSE,
          error |-> [text |-> "Invalid path index", path_ix |-> path_ix]]
    ELSE IF step.v.kind = "Key" THEN [ok |-> TRUE, v |-> step.v.key]
    ELSE IF step.v.kind = "Index" THEN [ok |-> TRUE, v |-> ToDecimal(step.v.ix)]
    ELSE [ok |-> FALSE, error |-> [text |-> "Root element is not supported"]]

\* the text of the first match of a selector placeholder: a string, a
\* boolean or a number, and nothing for anything else or for no match
FirstMatchText(ms) ==
    IF ms = <<>> THEN <<>>
    ELSE IF ms[1].value.kind = "string" THEN ms[1].value.s
    ELSE IF ms[1].value.kind = "bool" THEN BoolText(ms[1].value.b)
    ELSE IF ms[1].value.kind = "number" THEN NumberText(ms[1].value)
    ELSE <<>>

\* one arm of the match in TemplateProcessor::apply
Placeholder_apply(placeholder, found) ==
    IF placeholder.kind = "Text" THEN [ok |-> TRUE, v |-> placeholder.text]
    ELSE IF placeholder.kind = "VarIx"
    THEN PathStepText(path_get(found.path, placeholder.ix), placeholder.ix)
    ELSE [ok |-> TRUE,
          v |-> FirstMatchText(JsonSelector_find(placeholder.selector,
                                                 found.value))]

RECURSIVE TemplateProcessor_apply_from(_, _, _, _)
\* the loop of TemplateProcessor::apply from the i-th node on
TemplateProcessor_apply_from(tmpl, found, i, text) ==
    IF i > Len(tmpl) THEN [ok |-> TRUE, v |-> text]
    ELSE With(Placeholder_apply(tmpl[i], found), LAMBDA r :
            IF ~r.ok THEN r
            ELSE TemplateProcessor_apply_from(tmpl, found, i + 1, text \o r.v))

TemplateProcessor_apply(self, found) ==
    TemplateProcessor_apply_from(self, found, 1, <<>>)

should_escape_label_value(label_value) ==
    Cardinality({i \in 1..Len(label_value) :
                    label_value[i] \in {"\\", "\"", "\n"}})

RECURSIVE escape_label_value(_, _)
escape_label_value(label_value, num_escapes) ==
    IF label_value = <<>> THEN <<>>
    ELSE (IF Head(label_value) = "\"" THEN <<"\\", "\"">>
          ELSE IF Head(label_value) = "\n" THEN <<"\\", "n">>
          ELSE IF Head(label_value) = "\\" THEN <<"\\", "\\">>
          ELSE <<Head(label_value)>>)
         \o escape_label_value(Tail(label_value), num_escapes)

\* the label value as PreparedLabels::resolve stores it
safe_value(label_value) ==
    With(should_escape_label_value(label_value), LAMBDA num_escapes :
        IF num_escapes = 0 THEN label_value
        ELSE escape_label_value(label_value, num_escapes))

RECURSIVE PreparedLabels_resolve_from(_, _, _, _)
\* the loop of PreparedLabels::resolve from the i-th label on
PreparedLabels_resolve_from(self, found, i, labels) ==
    IF i > Len(self) THEN [ok |-> TRUE, v |-> labels]
    ELSE With(TemplateProcessor_apply(self[i].value_processor, found),
              LAMBDA label_value :
        IF ~label_value.ok THEN label_value
        ELSE PreparedLabels_resolve_from(
                 self, found, i + 1,
                 MapInsert(labels, self[i].name, safe_value(label_value.v))))

PreparedLabels_resolve(self, found) ==
    PreparedLabels_resolve_from(self, found, 1, EmptyMap)

RECURSIVE PathName_every(_, _, _)
\* an automatic name with a `_` before every step but the first
PathName_every(path, ix, metric_name) ==
    IF ix >= Len(path) THEN metric_name
    ELSE IF path[ix + 1].kind = "Root"
    THEN PathName_every(path, ix + 1,
                        IF ix > 0 THEN Append(metric_name, "_") ELSE metric_name)
    ELSE PathName_every(path, ix + 1,
                        (IF ix > 0 THEN Append(metric_name, "_") ELSE metric_name)
                        \o (IF path[ix + 1].kind = "Index"
                            THEN ToDecimal(path[ix + 1].ix)
                            ELSE path[ix + 1].key))

RECURSIVE PathName(_, _, _)
\* the loop of PreparedMetric::resolve that names a metric after its path,
\* from the ix-th step (counted from 0) on
PathName(path, ix, metric_name) ==
    IF ix >= Len(path) THEN metric_name
    ELSE
    LET sep == IF ix > 1 THEN Append(metric_name, "_") ELSE metric_name
        step == path[ix + 1]
    IN  IF step.kind = "Root" THEN PathName(path, ix + 1, sep)
        ELSE IF step.kind = "Index"
        THEN PathName(path, ix + 1, sep \o ToDecimal(step.ix))
        ELSE PathName(path, ix + 1, sep \o step.key)

ResolvedMetric(name, metric_type, labels) ==
    [name |-> name, metric_type |-> metric_type, labels |-> labels]

\* `let name = match &self.name_processor`
PreparedMetric_resolve_name(self, found) ==
    IF self.name_processor.some
    THEN TemplateProcessor_apply(self.name_processor.v, found)
    ELSE [ok |-> TRUE, v |-> PathName(found.path, 0, <<>>)]

PreparedMetric_resolve(self, found) ==
    With(PreparedMetric_resolve_name(self, found), LAMBDA name :
        IF ~name.ok THEN name
        ELSE With(PreparedLabels_resolve(self.labels, found), LAMBDA labels :
                IF ~labels.ok THEN labels
                ELSE [ok |-> TRUE,
                      v |-> ResolvedMetric(name.v, self.metric_type,
                                           labels.v)]))

\* a merge that escapes the labels it takes from the parent
merge_with_parent_escaped(self, parent) ==
    [self EXCEPT
        !.name = IF parent.name = <<>> THEN self.name
                 ELSE IF self.name = <<>> THEN parent.name
                 ELSE parent.name \o <<"_">> \o self.name,
        !.labels = [k \in DOMAIN self.labels \cup DOMAIN parent.labels |->
                       IF k \in DOMAIN self.labels THEN self.labels[k]
                       ELSE safe_value(parent.labels[k])]]

\* a merge in which the parent's labels win
merge_with_parent_labels(self, parent) ==
    [self EXCEPT
        !.name = IF parent.name = <<>> THEN self.name
                 ELSE IF self.name = <<>> THEN parent.name
                 ELSE parent.name \o <<"_">> \o self.name,
        !.labels = [k \in DOMAIN self.labels \cup DOMAIN parent.labels |->
                       IF k \in DOMAIN parent.labels THEN parent.labels[k]
                       ELSE self.labels[k]]]

\* a merge that joins the names whatever they are
merge_with_parent_joined(self, parent) ==
    [self EXCEPT
        !.name = parent.name \o <<"_">> \o self.name,
        !.labels = [k \in DOMAIN self.labels \cup DOMAIN parent.labels |->
                       IF k \in DOMAIN self.labels THEN self.labels[k]
                       ELSE parent.labels[k]]]

merge_with_parent(self, parent) ==
    [self EXCEPT
        !.name = IF parent.name = <<>> THEN self.name
                 ELSE IF self.name = <<>> THEN parent.name
                 ELSE parent.name \o <<"_">> \o self.name,
        !.labels = [k \in DOMAIN self.labels \cup DOMAIN parent.labels |->
                       IF k \in DOMAIN self.labels THEN self.labels[k]
                       ELSE parent.labels[k]]]

\* One level of the chain a resolved metric descends from: what that level
\* contributed by itself (its own name and labels), the match it was resolved
\* on, and the position of its metric in the configuration tree.  The chain
\* is kept beside each resolved metric as a history of how it was built.
Level(name, labels, path, pos) ==
    [name |-> name, labels |-> labels, path |-> path, pos |-> pos]

\* an element of the Vec<(&Value, ResolvedMetric)> of a stack frame
Entry(json, metric, trace) == [json |-> json, metric |-> metric, trace |-> trace]

RECURSIVE resolve_into_abort(_, _, _, _, _, _)
\* a loop that gives up at the first match that fails to resolve
resolve_into_abort(self, pos, parent, founds, i, acc) ==
    IF i > Len(founds) THEN acc
    ELSE With(PreparedMetric_resolve(self, founds[i]), LAMBDA r :
        IF ~r.ok
        THEN [acc EXCEPT !.warnings = Append(@, Warn(r.error))]
        ELSE resolve_into_abort(self, pos, parent, founds, i + 1,
                 [acc EXCEPT !.resolved_metrics =
                     Append(@, Entry(founds[i].value,
                                     merge_with_parent(r.v, parent.metric),
                                     Append(parent.trace,
                                            Level(r.v.name, r.v.labels,
                                                  founds[i].path, pos))))]))

RECURSIVE resolve_into_from(_, _, _, _, _, _)
\* the loop of PreparedMetric::resolve_into from the i-th match on; acc holds
\* resolved_metrics and warnings
resolve_into_from(self, pos, parent, founds, i, acc) ==
    IF i > Len(founds) THEN acc
    ELSE With(PreparedMetric_resolve(self, founds[i]), LAMBDA r :
        IF ~r.ok
        THEN resolve_into_from(self, pos, parent, founds, i + 1,
                 [acc EXCEPT !.warnings = Append(@, Warn(r.error))])
        ELSE resolve_into_from(self, pos, parent, founds, i + 1,
                 [acc EXCEPT !.resolved_metrics =
                     Append(@, Entry(founds[i].value,
                                     merge_with_parent(r.v, parent.metric),
                                     Append(parent.trace,
                                            Level(r.v.name, r.v.labels,
                                                  founds[i].path, pos))))]))

\* parent is the entry the metric is resolved under: its value is searched
resolve_into(self, pos, parent, acc) ==
    resolve_into_from(self, pos, parent,
                      JsonSelector_find(self.selector, parent.json), 1, acc)

RECURSIVE resolve_all(_, _, _, _, _)
\* `for (parent_json, parent_metric) in parent_state.iter()`
resolve_all(self, pos, parent_state, i, acc) ==
    IF i > Len(parent_state) THEN acc
    ELSE resolve_all(self, pos, parent_state, i + 1,
                     resolve_into(self, pos, parent_state[i], acc))

\* ------------------------------------------------------------------------
\* src/src/convert.rs: writing one sample
\* ------------------------------------------------------------------------

\* a check under which a counter takes booleans
check_value_lenient(value, metric_type) ==
    IF value.kind \in {"number", "bool"} THEN TRUE
    ELSE IF value.kind = "string" THEN metric_type = "Untyped"
    ELSE FALSE

check_value(value, metric_type) ==
    IF value.kind = "number" THEN TRUE
    ELSE IF value.kind = "bool" THEN metric_type \in {"Gauge", "Untyped"}
    ELSE IF value.kind = "string" THEN metric_type = "Untyped"
    ELSE FALSE

dump_value(value) ==
    IF value.kind = "number" THEN NumberText(value)
    ELSE IF value.kind = "bool" THEN (IF value.b THEN <<"1">> ELSE <<"0">>)
    ELSE value.s

\* the text after `# TYPE <name>`
TypeWord(metric_type) ==
    CASE metric_type = "Gauge" -> <<"g", "a", "u", "g", "e">>
      [] metric_type = "Counter" -> <<"c", "o", "u", "n", "t", "e", "r">>
      [] metric_type = "Untyped" -> <<"u", "n", "t", "y", "p", "e", "d">>

\* a line `# TYPE <name> <type>`
TypeLine(name, metric_type) ==
    [kind |-> "TYPE", name |-> name, word |-> TypeWord(metric_type)]

\* dump_metric, a space, dump_value: a line `<name>{k="v",...} <value>`; the
\* labels are written in the map's iteration order.  metric_type (the type
\* dump wrote the line under) and trace are not part of the text.
SampleLine(self, value, metric_type, trace) ==
    With(SortedKeys(DOMAIN self.labels), LAMBDA keys :
        [kind |-> "sample",
         name |-> self.name,
         labels |-> [i \in 1..Len(keys) |-> <<keys[i], self.labels[keys[i]]>>],
         value |-> dump_value(value),
         metric_type |-> metric_type,
         trace |-> trace])

\* a choice of type in which the recorded type wins over the declared one
dump_metric_type_seen(declared, seen_metric_type, value) ==
    IF seen_metric_type.some THEN seen_metric_type
    ELSE IF declared.some THEN declared
    ELSE IF value.kind = "string" THEN Some("Untyped")
    ELSE IF value.kind \in {"number", "bool"} THEN Some("Gauge")
    ELSE None

\* `let metric_type = match (self.metric_type, seen_metric_type)`; None is
\* the `return None` of its arms
dump_metric_type(declared, seen_metric_type, value) ==
    IF declared.some /\ ~seen_metric_type.some THEN declared
    ELSE IF ~declared.some /\ seen_metric_type.some THEN seen_metric_type
    ELSE IF declared.some /\ seen_metric_type.some
    THEN (IF declared.v # seen_metric_type.v THEN None ELSE seen_metric_type)
    ELSE IF value.kind = "string" THEN Some("Untyped")
    ELSE IF value.kind \in {"number", "bool"} THEN Some("Gauge")
    ELSE None

\* a TYPE line before every sample
writes_type_line_always(seen_metric_type) == TRUE

\* `if seen_metric_type.is_none()`: the TYPE line is written
writes_type_line(seen_metric_type) == ~seen_metric_type.some

\* ResolvedMetric::dump: the type returned and the lines added to buf
dump(self, value, seen_metric_type, trace) ==
    With(dump_metric_type(self.metric_type, seen_metric_type, value),
         LAMBDA metric_type :
        IF ~metric_type.some THEN [ret |-> None, lines |-> <<>>]
        ELSE IF ~check_value(value, metric_type.v)
        THEN [ret |-> None, lines |-> <<>>]
        ELSE [ret |-> metric_type,
              lines |-> (IF writes_type_line(seen_metric_type)
                         THEN <<TypeLine(self.name, metric_type.v)>>
                         ELSE <<>>)
                        \o <<SampleLine(self, value, metric_type.v, trace)>>])

\* every filter applied to the value of the document: the last one's result
apply_filters_unchained(filters, i, value) ==
    IF i > Len(filters) THEN FilterOk(value)
    ELSE Filter_apply(filters[Len(filters)], value)

RECURSIVE apply_filters(_, _, _)
\* `for filter in &metric.filters`, from the i-th filter on
apply_filters(filters, i, value) ==
    IF i > Len(filters) THEN FilterOk(value)
    ELSE With(Filter_apply(filters[i], value), LAMBDA r :
            IF r.ok THEN apply_filters(filters, i + 1, r.value) ELSE FilterErr)

\* ------------------------------------------------------------------------
\* The inputs: configurations, documents and root metrics
\* ------------------------------------------------------------------------

\* positional placeholders name the steps 0..MaxIx
MaxIx == 1

\* a metric has at most MaxFilters modifiers
MaxFilters == 2

Types == {"Gauge", "Counter", "Untyped"}

OptTypes == {None} \cup {Some(t) : t \in Types}

\* config::Metric
Metric(path, name, metric_type, modifiers, labels, metrics) ==
    [path |-> path, name |-> name, metric_type |-> metric_type,
     modifiers |-> modifiers, labels |-> labels, metrics |-> metrics]

\* config::Label
Label(name, value) == [name |-> name, value |-> value]

\* config::Filter
RawFilter(name, args) == [name |-> name, args |-> args]

\* config::Endpoint, without its URL
Endpoint(name, metrics) == [name |-> name, metrics |-> metrics]

Scalars ==
    {Number(0), Number(4), Bool(TRUE), Bool(FALSE), String(<<"x">>), Null}

\* {"a": {"c": v1, "d": v2}, "b": [v2, v1]}
Doc(v1, v2) ==
    Object(<< <<<<"a">>, Object(<< <<<<"c">>, v1>>, <<<<"d">>, v2>> >>)>>,
              <<<<"b">>, Array(<<v2, v1>>)>> >>)

Docs == {Doc(v1, v2) : v1, v2 \in Scalars}

\* the three spellings of the positional placeholder of step n
Positional(form, n) ==
    CASE form = "simple" -> <<"$">> \o ToDecimal(n)
      [] form = "braced" -> <<"$", "{">> \o ToDecimal(n) \o <<"}">>
      [] form = "spaced" -> <<"$", "{", " ">> \o ToDecimal(n) \o <<" ", "}">>

Forms == {"simple", "braced", "spaced"}

Positionals == {Positional(f, n) : f \in Forms, n \in 0..MaxIx}

\* AppState::new: the root metric carries the namespace and the global labels
RootMetric(namespace, global_labels) ==
    ResolvedMetric(namespace, None, global_labels)

\* resolve_global_labels: the labels of the configured global labels,
\* resolved on the root of the document of labels
resolve_global_labels(global_labels, labels_json) ==
    PreparedLabels_resolve(global_labels, Match(labels_json, <<Root>>))

\* config::Config, without its endpoints: the namespace and the labels of
\* the global labels
RootConfig(namespace, global_labels) ==
    [namespace |-> namespace, global_labels |-> global_labels]

PlainRoot == RootConfig(<<>>, <<>>)

Scenario(endpoint, root, doc) == [endpoint |-> endpoint, root |-> root, doc |-> doc]

\* two leaf metrics of one name, each with its own declared type
TypeScenarios ==
    {Scenario(Endpoint(<<>>,
                       <<Metric(<<"a", ".", "*">>, Some(<<"m">>), t1, <<>>, <<>>, <<>>),
                         Metric(<<"b", ".", "*">>, Some(<<"m">>), t2, <<>>, <<>>, <<>>)>>),
              PlainRoot, doc) :
        t1 \in OptTypes, t2 \in OptTypes, doc \in Docs}

OptNames == {None, Some(<<>>), Some(<<"p">>), Some(<<"q", "_", "x">>)}

\* a chain namespace / endpoint / parent / child / leaf of names, beside a
\* metric named after its path
NameScenarios ==
    {Scenario(Endpoint(en,
                       <<Metric(pp, pn, None, <<>>, <<>>,
                                <<Metric(<<"*">>, cn, None, <<>>, <<>>,
                                         <<Metric(lp, ln, None, <<>>, <<>>, <<>>)>>)>>),
                         Metric(<<"b", ".", "*">>, None, None, <<>>, <<>>, <<>>)>>),
              RootConfig(ns, <<>>), Doc(Number(4), Bool(TRUE))) :
        en \in {<<>>, <<"e">>}, ns \in {<<>>, <<"n">>},
        pp \in {<<>>, <<"*">>}, pn \in OptNames, cn \in OptNames,
        lp \in {<<>>, <<"*">>}, ln \in {None, Some(<<>>), Some(<<"y">>)}}

LabelLists ==
    {<<>>}
    \cup {<<Label(k, v)>> :
            k \in {<<"k">>, <<"l">>}, v \in Positionals \cup {<<"v">>}}
    \cup {<<Label(<<"l">>, <<"w">>), Label(<<"k">>, v)>> : v \in Positionals}

\* labels set by the global labels, by a parent metric and by its child
LabelScenarios ==
    {Scenario(Endpoint(<<>>,
                       <<Metric(<<"*">>, None, None, <<>>, pl,
                                <<Metric(<<"*">>, cn, None, <<>>, cl, <<>>)>>),
                         Metric(<<"a", ".", "*">>, tn, None, <<>>, <<>>, <<>>)>>),
              RootConfig(<<>>, gl), Doc(Number(0), String(<<"x">>))) :
        pl \in {<<>>, <<Label(<<"k">>, <<"$", "0">>)>>,
                <<Label(<<"k">>, <<"$", "1">>)>>,
                <<Label(<<"l">>, <<"u">>)>>},
        cl \in LabelLists,
        cn \in {None, Some(<<"c", "_", "$", "0">>)},
        tn \in {Some(<<"t", "_">> \o v) : v \in Positionals},
        gl \in {<<>>, <<Label(<<"k">>, <<"g">>)>>}}

FilterArgs == {Number(0), Number(2)}

RawFilters ==
    {RawFilter(<<"m", "u", "l">>, a) : a \in FilterArgs}
    \cup {RawFilter(<<"d", "i", "v">>, a) : a \in {Number(0), Number(1)}}

RECURSIVE Lists(_, _)
\* the sequences of at most n elements of set
Lists(set, n) ==
    IF n = 0 THEN {<<>>}
    ELSE Lists(set, n - 1)
         \cup {Append(l, x) : l \in Lists(set, n - 1), x \in set}

\* one leaf metric with a list of modifiers
FilterScenarios ==
    {Scenario(Endpoint(<<>>,
                       <<Metric(<<"a", ".", "*">>, None, None, fs, <<>>, <<>>)>>),
              PlainRoot, doc) :
        fs \in Lists(RawFilters, MaxFilters), doc \in Docs}

\* a declared or inherited type at each of three levels
InheritScenarios ==
    {Scenario(Endpoint(<<>>,
                       <<Metric(<<>>, Some(<<>>), t1, <<>>, <<>>,
                                <<Metric(<<"*">>, None, t2, <<>>, <<>>,
                                         <<Metric(<<"*">>, None, t3, <<>>, <<>>, <<>>)>>),
                                  Metric(<<"a", ".", "c">>, None, t3, <<>>, <<>>, <<>>)>>)>>),
              PlainRoot, Doc(Number(4), v)) :
        t1 \in OptTypes, t2 \in OptTypes, t3 \in OptTypes,
        v \in {Bool(FALSE), String(<<"x">>)}}

\* configurations the compiler rejects
RejectedScenarios ==
    {Scenario(Endpoint(<<>>, <<Metric(<<"a">>, n, None, fs, <<>>, <<>>)>>),
              PlainRoot, Doc(Number(0), Number(4))) :
        n \in {Some(<<"$", "{", "0">>), Some(<<"$">>), None},
        fs \in {<<RawFilter(<<"c", "o", "n", "s", "t">>, Number(1))>>,
                <<RawFilter(<<"m", "u", "l">>, String(<<"x">>))>>}}

\* a template is made of at most MaxPieces pieces
MaxPieces == 2

\* literal text, well-formed placeholders, and placeholders that are cut
\* short or have a body that is neither a number nor a selector
Pieces ==
    {<<"a">>, <<"$", "0">>, <<"$", "{", "0", "}">>, <<"$", "{">>,
     <<"$", "{", "x", "}">>, <<"$", "{", "0", "x", "}">>, <<"$">>}

RECURSIVE Concat(_)
Concat(seqs) == IF seqs = <<>> THEN <<>> ELSE Head(seqs) \o Concat(Tail(seqs))

Templates == {Concat(l) : l \in Lists(Pieces, MaxPieces)} \ {<<>>}

\* one leaf metric named by a template
TemplateScenarios ==
    {Scenario(Endpoint(<<>>,
                       <<Metric(<<"a", ".", "*">>, Some(t), None, <<>>, <<>>, <<>>)>>),
              PlainRoot, Doc(Number(4), Number(0))) :
        t \in Templates}

\* the spellings of a placeholder that selects the member c
SelectorTemplates ==
    {<<"$", "{", ".", "c", "}">>, <<"$", "{", "$", ".", "c", "}">>,
     <<"$", "{", " ", ".", "c", " ", "}">>, <<"$", "{", " ", "$", ".", "c", "}">>}

\* a metric on the object a with a label taken from inside the object
SelectorScenarios ==
    {Scenario(Endpoint(<<>>,
                       <<Metric(<<"a">>, Some(<<"m">>), None, <<>>,
                                <<Label(<<"l">>, t)>>,
                                <<Metric(<<"d">>, None, None, <<>>, <<>>, <<>>)>>)>>),
              PlainRoot, Doc(v, Number(4))) :
        t \in SelectorTemplates, v \in {String(<<"x">>), Number(0), Bool(TRUE)}}

\* the names of the filters of filters.rs, and two names of no filter
FilterNames ==
    {<<"m", "u", "l">>, <<"m", "u", "l", "t", "i", "p", "l", "y">>,
     <<"d", "i", "v">>, <<"d", "i", "v", "i", "d", "e">>,
     <<"c", "o", "n", "s", "t">>, <<"e", "q">>,
     <<"a", "b", "s">>, <<"M", "u", "l">>}

\* one leaf metric with one modifier of each name
RegistryScenarios ==
    {Scenario(Endpoint(<<>>,
                       <<Metric(<<"a", ".", "*">>, None, None,
                                <<RawFilter(n, a)>>, <<>>, <<>>)>>),
              PlainRoot, Doc(Number(4), Number(0))) :
        n \in FilterNames,
        a \in {Number(2), Array(<<Number(2)>>), String(<<"x">>), Null}}

\* label texts with the characters the exposition format escapes, and with
\* the two-character texts their escapes look like
SpecialTexts ==
    {<<"\"">>, <<"\\">>, <<"\n">>, <<"\\", "n">>, <<"\\", "\"">>,
     <<"a", "\"", "a">>, <<"v">>}

\* global labels, a parent metric and its child, each with a label of a
\* special text
EscapeScenarios ==
    {Scenario(Endpoint(<<>>,
                       <<Metric(<<"*">>, None, None, <<>>, pl,
                                <<Metric(<<"*">>, None, None, <<>>, cl, <<>>)>>)>>),
              RootConfig(<<>>, gl), Doc(Number(4), Number(0))) :
        gl \in {<<>>} \cup {<<Label(k, v)>> : k \in {<<"g">>, <<"k">>}, v \in SpecialTexts},
        pl \in {<<>>} \cup {<<Label(<<"k">>, v)>> : v \in SpecialTexts},
        cl \in {<<>>} \cup {<<Label(<<"l">>, v)>> : v \in SpecialTexts}}

\* label keys of which one is the beginning of another
OrderKeys == {<<"l">>, <<"k">>, <<"k", "0">>, <<"a">>}

\* the lists of at most three labels of different keys
OrderLists ==
    {ks \in Lists(OrderKeys, 3) :
        \A i, j \in 1..Len(ks) : i # j => ks[i] # ks[j]}

\* a leaf metric whose labels are declared in each order, below a parent with
\* a label and global labels
OrderScenarios ==
    {Scenario(Endpoint(<<>>,
                       <<Metric(<<"a">>, None, None, <<>>, pl,
                                <<Metric(<<"*">>, None, None, <<>>,
                                         [i \in 1..Len(ks) |-> Label(ks[i], <<"v">>)],
                                         <<>>)>>)>>),
              RootConfig(<<>>, gl), Doc(Number(4), Number(0))) :
        ks \in OrderLists,
        pl \in {<<>>, <<Label(<<"k", "_">>, <<"p">>)>>},
        gl \in {<<>>, <<Label(<<"g">>, <<"g">>)>>,
                <<Label(<<"m">>, <<"g">>), Label(<<"k">>, <<"g">>)>>}}

Scenarios ==
    OrderScenarios \cup EscapeScenarios \cup TypeScenarios \cup NameScenarios \cup LabelScenarios \cup FilterScenarios
    \cup InheritScenarios \cup RejectedScenarios \cup TemplateScenarios
    \cup SelectorScenarios \cup RegistryScenarios

\* ------------------------------------------------------------------------
\* src/src/service.rs: the cache of the /metrics response
\* ------------------------------------------------------------------------

\* the number of /metrics requests, the last instant of the clock, and the
\* cache_expiration the server is started with
NumRequests == 3

MaxTime == 2

CacheTtl == 1

\* ProcessMetricsError::status_code
status_code(err) == IF err = "Timeout" THEN 504 ELSE 500

\* ResponseError::error_response: the status and the error's message
error_response(err) ==
    [status |-> status_code(err), kind |-> "error", err |-> err, body |-> <<>>]

prometheus_response(data) ==
    [status |-> 200, kind |-> "metrics", err |-> "", body |-> data]

\* CachedMetrics::new at the instant now
CachedMetrics_new(cache_expiration, now_) ==
    [expiration_time |-> cache_expiration,
     expired_at |-> now_,
     buf |-> <<>>,
     err |-> Some("CacheNotInitialized")]

set_ok(self, now_) ==
    [self EXCEPT !.expired_at = now_ + self.expiration_time, !.err = None]

\* a set_error that stores no error
set_error_unset(self, err, now_) ==
    [self EXCEPT !.expired_at = now_ + self.expiration_time, !.err = None]

set_error(self, err, now_) ==
    [self EXCEPT !.expired_at = now_ + self.expiration_time, !.err = Some(err)]

is_initialized(self) == self.err # Some("CacheNotInitialized")

to_response(self) ==
    IF ~self.err.some THEN prometheus_response(self.buf)
    ELSE error_response(self.err.v)

\* the data of the lock around the cache: a writer holds it, or some readers
Unlocked == [exclusive |-> FALSE, num_readers |-> 0]

\* a try_write that does not look at who holds the lock
try_write_unchecked(lock_) == Done([lock_ EXCEPT !.exclusive = TRUE])

\* state.cache.try_write(): fails when a writer or a reader holds the lock
try_write(lock_) ==
    IF lock_.exclusive \/ lock_.num_readers > 0 THEN Err
    ELSE Done([lock_ EXCEPT !.exclusive = TRUE])

\* state.cache.read() is ready when no writer holds the lock
read_ready(lock_) == ~lock_.exclusive

\* the guard of a reader is taken and dropped
read_acquired(lock_) == [lock_ EXCEPT !.num_readers = @ + 1]

read_dropped(lock_) == [lock_ EXCEPT !.num_readers = @ - 1]

\* the guard of the writer is dropped
write_dropped(lock_) == [lock_ EXCEPT !.exclusive = FALSE]

\* the outcomes of process_metrics: the body is written, or an error is
\* returned, before anything is written or after a part of the body
Outcomes ==
    {[ok |-> TRUE],
     [ok |-> FALSE, err |-> "Timeout", written |-> <<>>],
     [ok |-> FALSE, err |-> "Json", written |-> <<0>>]}

\* a request that has not called the handler
NewRequest ==
    [at |-> "idle", last |-> None, observed |-> "", busy |-> "", scrape |-> 0,
     resp |-> None, answered |-> 0]

\* ------------------------------------------------------------------------
\* src/src/convert.rs: PreparedEndpoint::process and PreparedMetrics::process
\* ------------------------------------------------------------------------

VARIABLES
    config,         \* the endpoint as configured
    global_labels,  \* the labels of the global labels as configured
    endpoint,       \* the result of compiling it: a PreparedEndpoint or an error
    root_metric,    \* the root ResolvedMetric
    json,           \* the document
    pc,             \* "ready", "running", "returned"
    root_entry,     \* endpoint_metric and the document, the context of the top level
    stack,          \* process's stack of frames
    state,          \* the resolved metrics the leaf loop has yet to write
    filters,        \* the filters of the leaf metric being written
    seen_metrics,   \* the type recorded for each name
    warnings,
    buf,            \* the lines written
    visited         \* the positions of the metrics the iterators have returned

VARIABLES
    cache,          \* the CachedMetrics behind the lock
    lock,           \* the lock's data
    requests,       \* each /metrics request: where its handler is, what it saw
    now,            \* the clock
    scrapes,        \* the number of scrapes started
    completed       \* the scrape that ended last: its number, error and instant

svars == <<cache, lock, requests, now, scrapes, completed>>

VARIABLES
    url_args,       \* what an endpoint's URL is composed from
    url_patch,      \* the UrlPatch of the composition under way, or its error
    url_at,         \* the statement of create_from that comes next
    urls            \* the result of each composition that ended

uvars == <<url_args, url_patch, url_at, urls>>

VARIABLES
    concurrency,    \* state.concurrency
    permits,        \* the permits the semaphore of the scrape has left
    fetches,        \* the future of each endpoint of the scrape
    finished        \* the endpoints whose futures ended, in that order

pvars == <<concurrency, permits, fetches, finished>>

\* the variables outside the conversion and the cache
xvars == <<uvars, pvars>>

vars == <<config, global_labels, endpoint, root_metric, json, pc, root_entry, stack, state,
          filters, seen_metrics, warnings, buf, visited, svars, xvars>>

\* no URL is being composed
Uncomposed ==
    /\ url_args = None
    /\ url_patch = None
    /\ url_at = "none"
    /\ urls = <<>>

\* no scrape is looked into
Unscraped ==
    /\ concurrency = 0
    /\ permits = 0
    /\ fetches = <<>>
    /\ finished = <<>>

\* nothing happens outside the conversion and the cache
Elsewhere == Uncomposed /\ Unscraped

\* AppState::new: a cache nobody has used, and no request
Unused ==
    /\ cache = CachedMetrics_new(CacheTtl, 0)
    /\ lock = Unlocked
    /\ requests = [r \in 1..NumRequests |-> NewRequest]
    /\ now = 0
    /\ scrapes = 0
    /\ completed = None

\* a stack frame: an iterator over metrics (the slice and the index of the
\* next element) and the parent's resolved metrics; pos is the position in
\* the configuration tree of the metric that owns the slice
Frame(metrics, parent_state, pos) ==
    [metrics |-> metrics, ix |-> 1, parent_state |-> parent_state, pos |-> pos]

PreparedEndpoint_resolve_metric(self) == ResolvedMetric(self.name, None, EmptyMap)

Init ==
    /\ \E sc \in Scenarios :
        /\ config = sc.endpoint
        /\ global_labels = sc.root.global_labels
        /\ root_metric =
            RootMetric(sc.root.namespace,
                       resolve_global_labels(
                           PreparedLabels_try_from(sc.root.global_labels).v,
                           Null).v)
        /\ json = sc.doc
    /\ endpoint = PreparedEndpoint_create_from(config)
    /\ pc = "ready"
    /\ root_entry = <<>>
    /\ stack = <<>>
    /\ state = <<>>
    /\ filters = <<>>
    /\ seen_metrics = EmptyMap
    /\ warnings = <<>>
    /\ buf = <<>>
    /\ visited = <<>>
    /\ Unused
    /\ Elsewhere

\* the context of the top level: endpoint_metric and the document
RootEntry(own) ==
    Entry(json, merge_with_parent(own, root_metric),
          <<Level(root_metric.name, root_metric.labels, <<>>, <<>>),
            Level(own.name, own.labels, <<>>, <<>>)>>)

\* PreparedEndpoint::process up to the loop of PreparedMetrics::process
Process ==
    /\ pc = "ready"
    /\ endpoint.ok
    /\ root_entry' = RootEntry(PreparedEndpoint_resolve_metric(endpoint.v))
    /\ stack' = <<Frame(endpoint.v.metrics, None, <<>>)>>
    /\ pc' = "running"
    /\ UNCHANGED <<svars, xvars, visited, config, global_labels, endpoint, root_metric, json, state, filters,
                   seen_metrics, warnings, buf>>

Top == stack[Len(stack)]

\* the metric `current_metrics.next()` returns, and its position
NextMetric == Top.metrics[Top.ix]

NextPos == Append(Top.pos, Top.ix)

\* the resolved metrics of the next metric of the top frame, with the
\* warnings its resolution adds
Resolved(metric, pos) ==
    IF Top.parent_state.some
    THEN resolve_all(metric, pos, Top.parent_state.v, 1,
                     [resolved_metrics |-> <<>>, warnings |-> warnings])
    ELSE resolve_into(metric, pos, root_entry,
                      [resolved_metrics |-> <<>>, warnings |-> warnings])

\* the leaf loop starts on the resolved metrics
EnterLeaf(metric, acc) ==
    /\ state' = acc.resolved_metrics
    /\ filters' = IF acc.resolved_metrics = <<>> THEN <<>> ELSE metric.filters
    /\ warnings' = acc.warnings

\* one iteration of the loop on a leaf metric, up to its 'metrics_loop
VisitLeaf ==
    /\ pc = "running" /\ state = <<>> /\ stack # <<>>
    /\ Top.ix <= Len(Top.metrics)
    /\ NextMetric.metrics = <<>>
    /\ EnterLeaf(NextMetric, Resolved(NextMetric, NextPos))
    /\ visited' = Append(visited, NextPos)
    /\ stack' = [stack EXCEPT ![Len(stack)].ix = @ + 1]
    /\ UNCHANGED <<svars, xvars, config, global_labels, endpoint, root_metric, json, pc, root_entry,
                   seen_metrics, buf>>

\* a push that is left out when the metric resolved to nothing
EnterParent_nonempty(metric, pos, acc) ==
    /\ stack' = IF acc.resolved_metrics = <<>>
                THEN [stack EXCEPT ![Len(stack)].ix = @ + 1]
                ELSE Append([stack EXCEPT ![Len(stack)].ix = @ + 1],
                            Frame(metric.metrics, Some(acc.resolved_metrics), pos))
    /\ warnings' = acc.warnings

\* `stack.push((metric.metrics.iter(), Some(state)))`
EnterParent(metric, pos, acc) ==
    /\ stack' = Append([stack EXCEPT ![Len(stack)].ix = @ + 1],
                       Frame(metric.metrics, Some(acc.resolved_metrics), pos))
    /\ warnings' = acc.warnings

\* one iteration of the loop on a metric that has children
VisitParent ==
    /\ pc = "running" /\ state = <<>> /\ stack # <<>>
    /\ Top.ix <= Len(Top.metrics)
    /\ NextMetric.metrics # <<>>
    /\ EnterParent(NextMetric, NextPos, Resolved(NextMetric, NextPos))
    /\ visited' = Append(visited, NextPos)
    /\ UNCHANGED <<svars, xvars, config, global_labels, endpoint, root_metric, json, pc, root_entry, state,
                   filters, seen_metrics, buf>>

\* the value the leaf loop hands to dump
Filtered(value) ==
    IF filters = <<>> THEN FilterOk(value) ELSE apply_filters(filters, 1, value)

\* lines 104-118: what the loop does with the result of dump
AfterDump(resolved_metric, metric_type, dumped) ==
    IF dumped.ret.some
    THEN /\ buf' = buf \o dumped.lines
         /\ seen_metrics' =
                IF ~metric_type.some
                THEN MapInsert(seen_metrics, resolved_metric.name, dumped.ret.v)
                ELSE seen_metrics
         /\ UNCHANGED warnings
    ELSE /\ warnings' =
                Append(warnings,
                       Warn([text |-> "Error when dumping metric",
                             metric |-> resolved_metric]))
         /\ UNCHANGED <<seen_metrics, buf>>

\* lines 82-118: the body of 'metrics_loop on one resolved metric
SampleBody(entry, value, metric_type) ==
    IF ~value.ok
    THEN /\ warnings' = Append(warnings,
                               Warn([text |-> "Error when applying filter"]))
         /\ UNCHANGED <<seen_metrics, buf>>
    ELSE AfterDump(entry.metric, metric_type,
                   dump(entry.metric, value.value, metric_type, entry.trace))

\* one iteration of 'metrics_loop
Sample ==
    /\ pc = "running" /\ state # <<>>
    /\ SampleBody(Head(state), Filtered(Head(state).json),
                  MapGet(seen_metrics, Head(state).metric.name))
    /\ state' = Tail(state)
    /\ filters' = IF Tail(state) = <<>> THEN <<>> ELSE filters
    /\ UNCHANGED <<svars, xvars, visited, config, global_labels, endpoint, root_metric, json, pc, root_entry, stack>>

\* the iterator of the top frame is exhausted
Pop ==
    /\ pc = "running" /\ state = <<>> /\ stack # <<>>
    /\ Top.ix > Len(Top.metrics)
    /\ stack' = SubSeq(stack, 1, Len(stack) - 1)
    /\ UNCHANGED <<svars, xvars, visited, config, global_labels, endpoint, root_metric, json, pc, root_entry, state,
                   filters, seen_metrics, warnings, buf>>

\* the stack is empty: process returns the warnings
Return ==
    /\ pc = "running" /\ stack = <<>>
    /\ pc' = "returned"
    /\ UNCHANGED <<svars, xvars, visited, config, global_labels, endpoint, root_metric, json, root_entry, stack, state,
                   filters, seen_metrics, warnings, buf>>

Next == Process \/ VisitLeaf \/ VisitParent \/ Sample \/ Pop \/ Return

Spec == Init /\ [][Next]_vars

\* a metric without name, type, modifiers and labels
Node(path, metrics) == Metric(path, None, None, <<>>, <<>>, metrics)

\* the paths of the metrics of the trees: one that matches every child
\* and one that matches nothing
TreePaths == {<<"*">>, <<"x">>}

\* trees of three levels and of two, each path taken from TreePaths: a
\* parent may match nothing, and so may a leaf
TreeShapes ==
    {<<Node(p1, <<Node(p2, <<Node(p3, <<>>), Node(p4, <<>>)>>), Node(p5, <<>>)>>),
       Node(p4, <<>>)>> : p1 \in TreePaths, p2 \in TreePaths, p3 \in TreePaths,
                           p4 \in TreePaths, p5 \in TreePaths}
    \cup {<<Node(p1, <<>>), Node(p2, <<Node(p3, <<>>)>>), Node(p4, <<Node(p5, <<>>)>>)>> :
              p1 \in TreePaths, p2 \in TreePaths, p3 \in TreePaths,
              p4 \in TreePaths, p5 \in TreePaths}
    \cup {<<>>}

TreeScenarios ==
    {Scenario(Endpoint(<<"m">>, metrics), PlainRoot, Doc(Number(4), v)) :
        metrics \in TreeShapes, v \in {Number(0), String(<<"x">>)}}

\* the conversion of a document by an endpoint whose metrics form a tree
TraversalInit ==
    /\ \E sc \in TreeScenarios :
        /\ config = sc.endpoint
        /\ global_labels = sc.root.global_labels
        /\ root_metric = RootMetric(sc.root.namespace, EmptyMap)
        /\ json = sc.doc
    /\ endpoint = PreparedEndpoint_create_from(config)
    /\ pc = "ready"
    /\ root_entry = <<>>
    /\ stack = <<>>
    /\ state = <<>>
    /\ filters = <<>>
    /\ seen_metrics = EmptyMap
    /\ warnings = <<>>
    /\ buf = <<>>
    /\ visited = <<>>
    /\ Unused
    /\ Elsewhere

\* process is a loop without a point of suspension: once called it runs
\* until it returns
TraversalSpec == TraversalInit /\ [][Next]_vars /\ WF_vars(Next)

\* ------------------------------------------------------------------------
\* src/src/service.rs: the handler of /metrics, one action for each step
\* between two points where another request can run
\* ------------------------------------------------------------------------

\* the variables of the conversion
cvars ==
    <<config, global_labels, endpoint, root_metric, json, pc, root_entry, stack,
      state, filters, seen_metrics, warnings, buf, visited>>

\* no endpoint, and no conversion
Unconverted ==
    /\ config = Endpoint(<<>>, <<>>)
    /\ global_labels = <<>>
    /\ endpoint = PreparedEndpoint_create_from(config)
    /\ root_metric = RootMetric(<<>>, EmptyMap)
    /\ json = Null
    /\ pc = "ready"
    /\ root_entry = <<>>
    /\ stack = <<>>
    /\ state = <<>>
    /\ filters = <<>>
    /\ seen_metrics = EmptyMap
    /\ warnings = <<>>
    /\ buf = <<>>
    /\ visited = <<>>

\* a server with no endpoint
CacheInit ==
    /\ Unconverted
    /\ Unused
    /\ Elsewhere

\* the body the n-th scrape writes
Body(n) == <<n>>

\* the handler is called: state.cache.read() is awaited.  The requests are
\* numbered in the order they arrive.
Arrive(r) ==
    /\ requests[r].at = "idle"
    /\ \A r2 \in 1..(r - 1) : requests[r2].at # "idle"
    /\ requests' = [requests EXCEPT ![r].at = "read", ![r].last = completed]
    /\ UNCHANGED <<cache, lock, now, scrapes, completed, cvars, xvars>>

\* state.cache.read().await returns the guard
Read(r) ==
    /\ requests[r].at = "read"
    /\ read_ready(lock)
    /\ lock' = read_acquired(lock)
    /\ requests' = [requests EXCEPT ![r].at = "check"]
    /\ UNCHANGED <<cache, now, scrapes, completed, cvars, xvars>>

\* the cached response is returned when the cache is initialized and not
\* expired; the guard is dropped
Check(r) ==
    /\ requests[r].at = "check"
    /\ lock' = read_dropped(lock)
    /\ IF is_initialized(cache) /\ now < cache.expired_at
       THEN requests' = [requests EXCEPT ![r].at = "done",
                                         ![r].observed = "fresh",
                                         ![r].resp = Some(to_response(cache)),
                                         ![r].answered = now]
       ELSE requests' = [requests EXCEPT ![r].at = "try_write",
                                         ![r].observed = "expired"]
    /\ UNCHANGED <<cache, now, scrapes, completed, cvars, xvars>>

\* the rest of TryWrite once try_write has returned
TryWriteThen(r, locked) ==
    IF locked.ok
    THEN /\ lock' = locked.v
         /\ cache' = [cache EXCEPT !.buf = <<>>]
         /\ scrapes' = scrapes + 1
         /\ requests' = [requests EXCEPT ![r].at = "process_metrics",
                                         ![r].scrape = scrapes + 1]
    ELSE /\ requests' = [requests EXCEPT
                            ![r].at = "read_stale",
                            ![r].busy = IF lock.exclusive THEN "writer" ELSE "reader"]
         /\ UNCHANGED <<lock, cache, scrapes>>

\* state.cache.try_write(): with the guard the buffer is cleared and
\* process_metrics is awaited; without it state.cache.read() is awaited
TryWrite(r) ==
    /\ requests[r].at = "try_write"
    /\ TryWriteThen(r, try_write(lock))
    /\ UNCHANGED <<now, completed, cvars, xvars>>

\* the rest of ProcessMetrics once the outcome is stored
ProcessMetricsThen(r, cached_metrics) ==
    /\ cache' = cached_metrics
    /\ lock' = write_dropped(lock)
    /\ completed' = Some([scrape |-> requests[r].scrape,
                          err |-> cached_metrics.err,
                          at |-> now])
    /\ requests' = [requests EXCEPT ![r].at = "done",
                                    ![r].resp = Some(to_response(cached_metrics)),
                                    ![r].answered = now]

\* process_metrics returns: set_ok or set_error, the response is made of the
\* cache and the guard is dropped
ProcessMetrics(r) ==
    /\ requests[r].at = "process_metrics"
    /\ \E outcome \in Outcomes :
        ProcessMetricsThen(
            r,
            IF outcome.ok
            THEN set_ok([cache EXCEPT !.buf = Body(requests[r].scrape)], now)
            ELSE set_error([cache EXCEPT !.buf = outcome.written], outcome.err, now))
    /\ UNCHANGED <<now, scrapes, cvars, xvars>>

\* the state.cache.read().await of the request that got no writer's guard
ReadStale(r) ==
    /\ requests[r].at = "read_stale"
    /\ read_ready(lock)
    /\ lock' = read_acquired(lock)
    /\ requests' = [requests EXCEPT ![r].at = "respond"]
    /\ UNCHANGED <<cache, now, scrapes, completed, cvars, xvars>>

\* it returns the response made of the cache and drops the guard
RespondStale(r) ==
    /\ requests[r].at = "respond"
    /\ lock' = read_dropped(lock)
    /\ requests' = [requests EXCEPT ![r].at = "done",
                                    ![r].resp = Some(to_response(cache)),
                                    ![r].answered = now]
    /\ UNCHANGED <<cache, now, scrapes, completed, cvars, xvars>>

\* Instant::now() moves on
Tick ==
    /\ now < MaxTime
    /\ now' = now + 1
    /\ UNCHANGED <<cache, lock, requests, scrapes, completed, cvars, xvars>>

CacheNext ==
    \/ \E r \in 1..NumRequests : Arrive(r)
    \/ \E r \in 1..NumRequests : Read(r)
    \/ \E r \in 1..NumRequests : Check(r)
    \/ \E r \in 1..NumRequests : TryWrite(r)
    \/ \E r \in 1..NumRequests : ProcessMetrics(r)
    \/ \E r \in 1..NumRequests : ReadStale(r)
    \/ \E r \in 1..NumRequests : RespondStale(r)
    \/ Tick

CacheSpec == CacheInit /\ [][CacheNext]_vars

\* ------------------------------------------------------------------------
\* src/src/prepare.rs: the URL of an endpoint (PathDsl, UrlPatch)
\* ------------------------------------------------------------------------

UrlErr(msg) == [ok |-> FALSE, err |-> msg]

RECURSIVE split(_, _)
\* str::split(c): the pieces of s between the occurrences of c
split(s, c) ==
    With(SpanNotLen(s, {c}),
         LAMBDA n : IF n = Len(s) THEN <<s>>
                    ELSE <<Take(s, n)>> \o split(Drop(s, n + 1), c))

\* str::splitn(2, c): s cut at the first occurrence of c
splitn2(s, c) ==
    With(SpanNotLen(s, {c}),
         LAMBDA n : IF n = Len(s) THEN <<s>> ELSE <<Take(s, n), Drop(s, n + 1)>>)

\* str::strip_prefix("/")
strip_prefix(s) == IF s # <<>> /\ s[1] = "/" THEN Some(Drop(s, 1)) ELSE None

QueryParam(name, value) == [name |-> name, value |-> value]

UrlParts(paths, params) == [paths |-> paths, params |-> params]

PathDsl(name, params) == [name |-> name, params |-> params]

PathDsl_parse(path_dsl) ==
    With(splitn2(path_dsl, "?"),
         LAMBDA url_parts :
            IF Len(url_parts) = 1
            THEN IF url_parts[1] = <<>> THEN PathDsl(None, None)
                 ELSE PathDsl(Some(url_parts[1]), None)
            ELSE PathDsl(IF url_parts[1] = <<>> THEN None ELSE Some(url_parts[1]),
                         IF url_parts[2] = <<>> THEN Some(<<>>)
                         ELSE Some(SelectSeq(split(url_parts[2], "&"),
                                             LAMBDA p : p # <<>>))))

UrlPatch_default == [path_segments |-> <<>>, query_params |-> EmptyMap]

RECURSIVE insert_pairs(_, _)
\* the loop of add_path_with_query: each name=value of the query is inserted
insert_pairs(query_params, params) ==
    IF params = <<>> THEN query_params
    ELSE With(splitn2(Head(params), "="),
              LAMBDA param_split :
                 insert_pairs(MapInsert(query_params, param_split[1],
                                        IF Len(param_split) = 2 THEN param_split[2]
                                        ELSE <<>>),
                              Tail(params)))

UrlPatch_add_path_with_query(self, path_with_query) ==
    With(splitn2(path_with_query, "?"),
         LAMBDA parts :
            [path_segments |-> split(parts[1], "/"),
             query_params |->
                IF Len(parts) = 2
                THEN insert_pairs(self.query_params, split(parts[2], "&"))
                ELSE self.query_params])

\* the match on path_dsl.name that never asks for a path
select_path_optional(self, path_dsl, available_paths, is_path_mandatory) ==
    IF path_dsl.name.some
    THEN With(MapGet(available_paths, path_dsl.name.v),
              LAMBDA path :
                 IF path.some
                 THEN Done([self EXCEPT !.path_segments = split(path.v, "/")])
                 ELSE UrlErr("Unknown url path name"))
    ELSE Done(self)

\* the match on path_dsl.name, a path being mandatory or not
select_path(self, path_dsl, available_paths, is_path_mandatory) ==
    IF path_dsl.name.some
    THEN With(MapGet(available_paths, path_dsl.name.v),
              LAMBDA path :
                 IF path.some
                 THEN Done([self EXCEPT !.path_segments = split(path.v, "/")])
                 ELSE UrlErr("Unknown url path name"))
    ELSE IF is_path_mandatory THEN UrlErr("Path is mandatory")
    ELSE Done(self)

RECURSIVE insert_params(_, _, _)
\* the loop over the parameter keys of the DSL
insert_params(query_params, params, available_params) ==
    IF params = <<>> THEN Done(query_params)
    ELSE With(MapGet(available_params, Head(params)),
              LAMBDA param :
                 IF param.some
                 THEN insert_params(
                          MapInsert(query_params, param.v.name,
                                    IF param.v.value.some THEN param.v.value.v ELSE <<>>),
                          Tail(params), available_params)
                 ELSE UrlErr("Unknown url parameter name"))

\* if let Some(params) = path_dsl.params, with no query_params.clear()
select_params_kept(self, path_dsl, available_params) ==
    IF path_dsl.params.some
    THEN With(insert_params(self.query_params, path_dsl.params.v, available_params),
              LAMBDA q : IF q.ok THEN Done([self EXCEPT !.query_params = q.v]) ELSE q)
    ELSE Done(self)

\* if let Some(params) = path_dsl.params: query_params.clear() and the loop
select_params(self, path_dsl, available_params) ==
    IF path_dsl.params.some
    THEN With(insert_params(EmptyMap, path_dsl.params.v, available_params),
              LAMBDA q : IF q.ok THEN Done([self EXCEPT !.query_params = q.v]) ELSE q)
    ELSE Done(self)

\* the patch add_endpoint_url leaves in self, or the error it returns
UrlPatch_add_endpoint_url(self, path_or_dsl, url_parts, is_path_mandatory) ==
    With(strip_prefix(path_or_dsl),
         LAMBDA path_with_query :
            IF path_with_query.some
            THEN Done(UrlPatch_add_path_with_query(self, path_with_query.v))
            ELSE With(PathDsl_parse(path_or_dsl),
                      LAMBDA path_dsl :
                         With(select_path(self, path_dsl, url_parts.paths,
                                          is_path_mandatory),
                              LAMBDA p : IF p.ok
                                         THEN select_params(p.v, path_dsl, url_parts.params)
                                         ELSE p)))

\* url::Url as apply uses it: the segments of the path ("/" is one empty
\* segment) and the pairs of the query
Url(cannot_be_a_base, path, query) ==
    [cannot_be_a_base |-> cannot_be_a_base, path |-> path, query |-> query]

\* PathSegmentsMut::pop_if_empty that removes nothing
pop_if_empty_never(path) == path

\* PathSegmentsMut::pop_if_empty: a trailing slash after the first one goes
pop_if_empty(path) ==
    IF Len(path) > 1 /\ path[Len(path)] = <<>> THEN Take(path, Len(path) - 1) ELSE path

\* PathSegmentsMut::push: the segment goes after a slash, the slash of the
\* empty path serving for the first one
push(path, segment) ==
    IF segment \in {<<".">>, <<".", ".">>} THEN path
    ELSE IF path = << <<>> >> THEN <<segment>>
    ELSE Append(path, segment)

RECURSIVE push_segments(_, _)
\* the loop of apply over self.path_segments
push_segments(path, segments) ==
    IF segments = <<>> THEN path
    ELSE push_segments(IF Head(segments) # <<>> THEN push(path, Head(segments)) ELSE path,
                       Tail(segments))

\* the orders in which a HashMap of these keys may be iterated
HashMap_iter(keys) ==
    {order \in [1..Cardinality(keys) -> keys] :
        \A i, j \in 1..Cardinality(keys) : order[i] = order[j] => i = j}

\* query_pairs_mut and one append_pair for each key of the iteration
append_pairs(query, order, query_params) ==
    Some((IF query.some THEN query.v ELSE <<>>)
         \o [i \in 1..Len(order) |-> <<order[i], query_params[order[i]]>>])

\* every URL apply may return: one for each iteration order of query_params
UrlPatch_apply(self, url) ==
    IF url.cannot_be_a_base THEN {UrlErr("Url cannot be base")}
    ELSE With(push_segments(pop_if_empty(url.path), self.path_segments),
              LAMBDA path :
                 {Done(Url(FALSE, path, append_pairs(url.query, order, self.query_params))) :
                     order \in HashMap_iter(DOMAIN self.query_params)})

RECURSIVE join(_, _)
\* the pieces with sep between them
join(pieces, sep) ==
    IF pieces = <<>> THEN <<>>
    ELSE IF Len(pieces) = 1 THEN pieces[1]
    ELSE pieces[1] \o sep \o join(Tail(pieces), sep)

\* Url::as_str of a URL of the host h
Url_as_str(url) ==
    <<"h", "t", "t", "p", ":", "/", "/", "h", "/">> \o join(url.path, <<"/">>)
    \o (IF url.query.some
        THEN <<"?">> \o join([i \in 1..Len(url.query.v) |->
                                url.query.v[i][1] \o <<"=">> \o url.query.v[i][2]],
                             <<"&">>)
        ELSE <<>>)

\* the url_parts of the endpoint: paths a and l, parameters g and p
TheUrlParts ==
    UrlParts(MapInsert(MapInsert(EmptyMap, <<"a">>, <<"/", "_", "a">>), <<"l">>, <<"/", "_", "l", "/", "b">>),
             MapInsert(MapInsert(EmptyMap, <<"g">>, QueryParam(<<"g">>, None)),
                       <<"p">>, QueryParam(<<"h">>, Some(<<"m">>))))

\* the path names and the parameter lists a URL in name form is made of
DslNames == {<<>>, <<"a">>, <<"l">>, <<"x">>}

DslParams == {<<>>, <<"?">>, <<"?", "g">>, <<"?", "g", "&", "p">>, <<"?", "n">>}

\* the URLs given in path form
PathUrls == {<<"/">>, <<"/", "c">>, <<"/", "c", "/", "/", "d", "?", "h", "=", "e", "&", "k">>}

EndpointUrls == {name \o params : name \in DslNames, params \in DslParams} \cup PathUrls

\* the base URLs: http://h/, http://h/t, http://h/t/, http://h/t/u/ and one
\* that cannot be a base
BaseUrls ==
    {Url(FALSE, << <<>> >>, None), Url(FALSE, <<<<"t">>>>, None),
     Url(FALSE, <<<<"t">>, <<>>>>, None), Url(FALSE, <<<<"t">>, <<"u">>, <<>>>>, None),
     Url(TRUE, <<<<"t">>>>, None)}

\* how many times the same configuration is compiled
Compilations == 2

UrlArgs ==
    [base_url : BaseUrls,
     endpoint : [url : EndpointUrls, url_parts : {TheUrlParts}],
     overriden_endpoint_url : {None} \cup {Some(u) : u \in EndpointUrls}]

UrlInit ==
    /\ Unconverted
    /\ Unused
    /\ Unscraped
    /\ url_args \in UrlArgs
    /\ url_patch = Done(UrlPatch_default)
    /\ url_at = "add_endpoint_url"
    /\ urls = <<>>

\* create_from returns what the composition came to
Returns(result) ==
    /\ urls' = Append(urls, result)
    /\ url_at' = "done"

\* url_patch.add_endpoint_url(&endpoint.url, &endpoint.url_parts, true)?
AddEndpointUrl ==
    /\ url_at = "add_endpoint_url"
    /\ url_patch' = UrlPatch_add_endpoint_url(url_patch.v, url_args.endpoint.url,
                                              url_args.endpoint.url_parts, TRUE)
    /\ IF url_patch'.ok THEN url_at' = "override" /\ UNCHANGED urls
       ELSE Returns(url_patch')
    /\ UNCHANGED <<url_args, svars, cvars, pvars>>

\* if let Some(overriden_endpoint_url): add_endpoint_url(.., false)?
AddOverride ==
    /\ url_at = "override"
    /\ url_patch' =
        IF url_args.overriden_endpoint_url.some
        THEN UrlPatch_add_endpoint_url(url_patch.v, url_args.overriden_endpoint_url.v,
                                       url_args.endpoint.url_parts, FALSE)
        ELSE url_patch
    /\ IF url_patch'.ok THEN url_at' = "apply" /\ UNCHANGED urls
       ELSE Returns(url_patch')
    /\ UNCHANGED <<url_args, svars, cvars, pvars>>

\* let url = url_patch.apply(&base_url)?
Apply ==
    /\ url_at = "apply"
    /\ \E result \in UrlPatch_apply(url_patch.v, url_args.base_url) : Returns(result)
    /\ UNCHANGED <<url_args, url_patch, svars, cvars, pvars>>

\* the same configuration is compiled once more
Again ==
    /\ url_at = "done"
    /\ Len(urls) < Compilations
    /\ url_patch' = Done(UrlPatch_default)
    /\ url_at' = "add_endpoint_url"
    /\ UNCHANGED <<url_args, urls, svars, cvars, pvars>>

UrlNext == AddEndpointUrl \/ AddOverride \/ Apply \/ Again

UrlSpec == UrlInit /\ [][UrlNext]_vars

\* ------------------------------------------------------------------------
\* src/src/service.rs: process_metrics, one action for each step of a fetch
\* and one for the rest of the scrape once try_join_all is ready
\* ------------------------------------------------------------------------

\* the endpoints of the configuration
NumEndpoints == 2

\* state.concurrency is one of 0..MaxConcurrency
MaxConcurrency == 2

\* state.timeout
RequestTimeout == 1

\* the texts the i-th endpoint answers with: its document, or a text that
\* is not JSON
Texts(i) == {[valid |-> TRUE, doc |-> i], [valid |-> FALSE, doc |-> 0]}

\* what fetch returns when it is not cut short by the deadline
FetchResults(i) == {Done(text) : text \in Texts(i)} \cup {UrlErr("Reqwest")}

\* serde_json::from_str
from_str(text) == IF text.valid THEN Done(text.doc) ELSE UrlErr("Json")

\* what endpoint.process writes for the i-th endpoint and a document
process(i, json_) == <<[endpoint |-> i, doc |-> json_]>>

\* a future of resp_futures that has not been created
NoFetch == [at |-> "none", scrape |-> 0]

\* the future is created: it waits for a permit
Queued(scrape, now_) == [at |-> "acquire", scrape |-> scrape, queued |-> now_]

\* a deadline counted from the instant the future was created
started_at_queue(fetch, now_, timeout) ==
    [at |-> "fetching", scrape |-> fetch.scrape, queued |-> fetch.queued,
     start |-> now_, deadline |-> fetch.queued + timeout]

\* the permit is acquired: start_request is taken and fetch_text_content
\* sets its deadline
started(fetch, now_, timeout) ==
    [at |-> "fetching", scrape |-> fetch.scrape, queued |-> fetch.queued,
     start |-> now_, deadline |-> now_ + timeout]

\* the future has ended with a result
ended(fetch, result, now_) ==
    [at |-> "ready", scrape |-> fetch.scrape, queued |-> fetch.queued,
     start |-> fetch.start, deadline |-> fetch.deadline,
     result |-> result, ended |-> now_]

\* Semaphore::new
Semaphore_new(permits_) == permits_

\* an acquire that takes a permit there is not
acquire_ready_always(permits_) == TRUE

\* semaphore.acquire() is ready when a permit is left
acquire_ready(permits_) == permits_ > 0

\* the results in the order the futures ended
try_join_all_as_ended(fetches_, finished_) ==
    [k \in DOMAIN finished_ |-> fetches_[finished_[k]].result.v]

\* try_join_all of futures that all ended well: the results in the order
\* of the futures
try_join_all(fetches_, finished_) ==
    [i \in DOMAIN fetches_ |-> fetches_[i].result.v]

\* a future has ended with an error
Failed(fetch) == fetch.at = "ready" /\ ~fetch.result.ok

\* try_join_all is ready when a future has failed or all have ended
join_ready(fetches_) ==
    \/ \E i \in DOMAIN fetches_ : Failed(fetches_[i])
    \/ \A i \in DOMAIN fetches_ : fetches_[i].at = "ready"

\* the error try_join_all returns: that of the first failed future
join_error(fetches_) ==
    fetches_[CHOOSE i \in DOMAIN fetches_ :
                /\ Failed(fetches_[i])
                /\ \A j \in 1..(i - 1) : ~Failed(fetches_[j])].result.err

RECURSIVE write_all(_, _, _)
\* the loop over endpoints zipped with responses, from the i-th on: the
\* text is parsed and the endpoint writes to the buffer
write_all(responses, i, buf_) ==
    IF i > Len(responses) THEN [ok |-> TRUE, buf |-> buf_]
    ELSE With(from_str(responses[i]),
              LAMBDA json_ :
                 IF json_.ok
                 THEN write_all(responses, i + 1, buf_ \o process(i, json_.v))
                 ELSE [ok |-> FALSE, err |-> json_.err, buf |-> buf_])

\* the cache after process_metrics returned and set_ok or set_error was
\* called, the futures being ready to join
process_metrics(cached_metrics, fetches_, finished_, now_) ==
    IF \E i \in DOMAIN fetches_ : Failed(fetches_[i])
    THEN set_error(cached_metrics, join_error(fetches_), now_)
    ELSE With(write_all(try_join_all(fetches_, finished_), 1, cached_metrics.buf),
              LAMBDA written :
                 IF written.ok
                 THEN set_ok([cached_metrics EXCEPT !.buf = written.buf], now_)
                 ELSE set_error([cached_metrics EXCEPT !.buf = written.buf],
                                written.err, now_))

ScrapeInit ==
    /\ Unconverted
    /\ Unused
    /\ Uncomposed
    /\ concurrency \in 0..MaxConcurrency
    /\ permits = 0
    /\ fetches = [i \in 1..NumEndpoints |-> NoFetch]
    /\ finished = <<>>

\* the handler is called once the request before it is answered
Request(r) ==
    /\ \A r2 \in 1..(r - 1) : requests[r2].at = "done"
    /\ Arrive(r)

\* process_metrics is called: the semaphore and the futures are created
Spawn(r) ==
    /\ requests[r].at = "process_metrics"
    /\ \A i \in DOMAIN fetches : fetches[i].scrape # requests[r].scrape
    /\ permits' = Semaphore_new(concurrency)
    /\ fetches' = [i \in 1..NumEndpoints |-> Queued(requests[r].scrape, now)]
    /\ finished' = <<>>
    /\ UNCHANGED <<concurrency, svars, cvars, uvars>>

\* semaphore.acquire().await returns the permit
Acquire(i) ==
    /\ fetches[i].at = "acquire"
    /\ acquire_ready(permits)
    /\ permits' = permits - 1
    /\ fetches' = [fetches EXCEPT ![i] = started(@, now, RequestTimeout)]
    /\ UNCHANGED <<concurrency, finished, svars, cvars, uvars>>

\* the future ends with what fetch returned, the deadline not being past;
\* its permit is dropped
Complete(i) ==
    /\ fetches[i].at = "fetching"
    /\ now <= fetches[i].deadline
    /\ \E result \in FetchResults(i) :
          fetches' = [fetches EXCEPT ![i] = ended(@, result, now)]
    /\ permits' = permits + 1
    /\ finished' = Append(finished, i)
    /\ UNCHANGED <<concurrency, svars, cvars, uvars>>

\* timeout_at elapses: the future ends with Timeout; its permit is dropped
Elapse(i) ==
    /\ fetches[i].at = "fetching"
    /\ now >= fetches[i].deadline
    /\ fetches' = [fetches EXCEPT ![i] = ended(@, UrlErr("Timeout"), now)]
    /\ permits' = permits + 1
    /\ finished' = Append(finished, i)
    /\ UNCHANGED <<concurrency, svars, cvars, uvars>>

\* try_join_all returns: the futures are dropped, the responses are
\* written, set_ok or set_error is called, the response is made of the
\* cache and the guard is dropped
Join(r) ==
    /\ requests[r].at = "process_metrics"
    /\ \A i \in DOMAIN fetches : fetches[i].scrape = requests[r].scrape
    /\ join_ready(fetches)
    /\ ProcessMetricsThen(r, process_metrics(cache, fetches, finished, now))
    /\ fetches' = [i \in DOMAIN fetches |-> NoFetch]
    /\ permits' = 0
    /\ UNCHANGED <<concurrency, finished, now, scrapes, cvars, uvars>>

ScrapeNext ==
    \/ \E r \in 1..NumRequests : Request(r)
    \/ \E r \in 1..NumRequests : Read(r)
    \/ \E r \in 1..NumRequests : Check(r)
    \/ \E r \in 1..NumRequests : TryWrite(r)
    \/ \E r \in 1..NumRequests : Spawn(r)
    \/ \E i \in 1..NumEndpoints : Acquire(i)
    \/ \E i \in 1..NumEndpoints : Complete(i)
    \/ \E i \in 1..NumEndpoints : Elapse(i)
    \/ \E r \in 1..NumRequests : Join(r)
    \/ Tick

\* the runtime polls a task that is ready, a timer that is due fires, and
\* a fetch either returns or is cut short by its deadline
ScrapeSpec == ScrapeInit /\ [][ScrapeNext]_vars /\ WF_vars(ScrapeNext)

\* ------------------------------------------------------------------------
\* Properties of one emission
\* ------------------------------------------------------------------------

Last(s) == s[Len(s)]

Front(s) == SubSeq(s, 1, Len(s) - 1)

\* the sample lines of buf
SampleIxs == {i \in 1..Len(buf) : buf[i].kind = "sample"}

NamesWritten == {buf[i].name : i \in 1..Len(buf)}

TypeLinesOf(n) ==
    {i \in 1..Len(buf) : buf[i].kind = "TYPE" /\ buf[i].name = n}

SampleLinesOf(n) ==
    {i \in 1..Len(buf) : buf[i].kind = "sample" /\ buf[i].name = n}

\* name n has one TYPE line, of the recorded type, right before its first
\* sample line, and each of its sample lines was written under that type
OneTypeLine(n) ==
    /\ Cardinality(TypeLinesOf(n)) = 1
    /\ n \in DOMAIN seen_metrics
    /\ \A t \in TypeLinesOf(n) :
        /\ buf[t].word = TypeWord(seen_metrics[n])
        /\ (t + 1) \in SampleLinesOf(n)
        /\ \A i \in SampleLinesOf(n) :
            i > t /\ buf[i].metric_type = seen_metrics[n]

\* a step keeps every recorded type
RecordedTypeKept ==
    \A n \in DOMAIN seen_metrics :
        n \in DOMAIN seen_metrics' /\ seen_metrics'[n] = seen_metrics[n]

\* C1: every name in the output has exactly one TYPE line, immediately
\* before its first sample line, every sample line of the name was written
\* under the recorded type, and a recorded type never changes.
C1_OneTypeLinePerName ==
    /\ [](\A n \in NamesWritten : OneTypeLine(n))
    /\ [][RecordedTypeKept]_vars

\* a name with one TYPE line and several samples, beside another name
C1_Witness ==
    \E n \in NamesWritten :
        /\ Cardinality(SampleLinesOf(n)) >= 2
        /\ Cardinality(TypeLinesOf(n)) = 1
        /\ buf[1].kind = "TYPE"

\* the next resolved metric declares a type other than the one recorded for
\* its name
TypeConflict ==
    /\ state # <<>>
    /\ Head(state).metric.metric_type.some
    /\ Head(state).metric.name \in DOMAIN seen_metrics
    /\ seen_metrics[Head(state).metric.name] # Head(state).metric.metric_type.v

\* exactly one warning is appended
OneWarningMore ==
    /\ Len(warnings') = Len(warnings) + 1
    /\ SubSeq(warnings', 1, Len(warnings)) = warnings
    /\ Last(warnings').level = "Warn"

\* C2: a sample whose declared type differs from the type recorded for its
\* name writes nothing, leaves the recorded types alone and adds exactly one
\* warning.
C2_ConflictDropped ==
    [][(pc = "running" /\ TypeConflict)
       => (buf' = buf /\ seen_metrics' = seen_metrics /\ OneWarningMore)]_vars

\* a warning about a metric whose declared type is not the recorded one
C2_Witness ==
    \E i \in 1..Len(warnings) :
        /\ warnings[i].msg.text = "Error when dumping metric"
        /\ warnings[i].msg.metric.metric_type.some
        /\ warnings[i].msg.metric.name \in DOMAIN seen_metrics
        /\ seen_metrics[warnings[i].msg.metric.name]
               # warnings[i].msg.metric.metric_type.v

\* the label keys of a sample line and of the levels it descends from
KeysOf(line) ==
    {line.labels[i][1] : i \in 1..Len(line.labels)}
    \cup UNION {DOMAIN line.trace[j].labels : j \in 1..Len(line.trace)}

\* the levels of a chain that set key k
LevelsSetting(trace, k) == {j \in 1..Len(trace) : k \in DOMAIN trace[j].labels}

\* the nearest of them
Nearest(levels) == CHOOSE j \in levels : \A j2 \in levels : j2 <= j

\* C3: a sample carries a label key iff its metric or one of its ancestors
\* sets it, once, with the value of the nearest level that sets it.
C3_NearestLabel ==
    \A i \in SampleIxs : \A k \in KeysOf(buf[i]) :
        /\ LevelsSetting(buf[i].trace, k) # {}
        /\ Cardinality({l \in 1..Len(buf[i].labels) : buf[i].labels[l][1] = k}) = 1
        /\ \E l \in 1..Len(buf[i].labels) :
            buf[i].labels[l] =
                <<k, buf[i].trace[Nearest(LevelsSetting(buf[i].trace, k))].labels[k]>>

\* a sample with a key that two levels set to different values, and a key
\* that only an ancestor sets
C3_Witness ==
    \E i \in SampleIxs :
        /\ \E k \in KeysOf(buf[i]) : \E j1, j2 \in LevelsSetting(buf[i].trace, k) :
            /\ j1 < j2
            /\ buf[i].trace[j1].labels[k] # buf[i].trace[j2].labels[k]
        /\ \E k \in KeysOf(buf[i]) :
            /\ LevelsSetting(buf[i].trace, k) # {}
            /\ Len(buf[i].trace) \notin LevelsSetting(buf[i].trace, k)

RECURSIVE JoinNames(_)
\* the non-empty names joined with `_`
JoinNames(names) ==
    IF names = <<>> THEN <<>>
    ELSE IF Head(names) = <<>> THEN JoinNames(Tail(names))
    ELSE With(JoinNames(Tail(names)), LAMBDA rest :
            IF rest = <<>> THEN Head(names)
            ELSE Head(names) \o <<"_">> \o rest)

TraceNames(trace) == [j \in 1..Len(trace) |-> trace[j].name]

\* every resolved metric the emission holds or has written, with its chain
ResolvedNow ==
    {<<buf[i].name, buf[i].trace>> : i \in SampleIxs}
    \cup {<<state[i].metric.name, state[i].trace>> : i \in 1..Len(state)}
    \cup UNION {{<<stack[f].parent_state.v[i].metric.name,
                   stack[f].parent_state.v[i].trace>> :
                    i \in 1..Len(stack[f].parent_state.v)} :
                 f \in {g \in 1..Len(stack) : stack[g].parent_state.some}}
    \cup (IF pc = "ready" THEN {}
          ELSE {<<root_entry.metric.name, root_entry.trace>>})

Underscores(s) == Cardinality({i \in 1..Len(s) : s[i] = "_"})

RECURSIVE SumUnderscores(_)
SumUnderscores(names) ==
    IF names = <<>> THEN 0
    ELSE Underscores(Head(names)) + SumUnderscores(Tail(names))

NonEmpty(names) == Cardinality({j \in 1..Len(names) : names[j] # <<>>})

\* C4: the name of a resolved metric is the names of its chain (namespace,
\* endpoint, parents, itself), the empty ones skipped, joined with one `_`:
\* the join adds one `_` between two names and none elsewhere.
C4_NameJoined ==
    \A r \in ResolvedNow :
        /\ r[1] = JoinNames(TraceNames(r[2]))
        /\ Underscores(r[1]) =
               SumUnderscores(TraceNames(r[2]))
               + (IF NonEmpty(TraceNames(r[2])) = 0 THEN 0
                  ELSE NonEmpty(TraceNames(r[2])) - 1)

\* a written sample with an empty level between two named ones
C4_Witness ==
    \E i \in SampleIxs : \E j1, j2, j3 \in 1..Len(buf[i].trace) :
        /\ j1 < j2 /\ j2 < j3
        /\ buf[i].trace[j1].name # <<>>
        /\ buf[i].trace[j2].name = <<>>
        /\ buf[i].trace[j3].name # <<>>

RECURSIVE PositionsOf(_)
\* the positions of the metrics of a tree: the indexes from the top down
PositionsOf(metrics) ==
    UNION {{<<i>>} \cup {<<i>> \o pos : pos \in PositionsOf(metrics[i].metrics)} :
            i \in 1..Len(metrics)}

RECURSIVE MetricAt(_, _)
\* the metric at a position of a tree, configured or prepared
MetricAt(metrics, pos) ==
    IF Len(pos) = 1 THEN metrics[pos[1]]
    ELSE MetricAt(metrics[pos[1]].metrics, Tail(pos))

\* the types declared from the top down to a position
DeclaredChain(pos) ==
    [d \in 1..Len(pos) |-> MetricAt(config.metrics, SubSeq(pos, 1, d)).metric_type]

\* the last type a chain declares, if any
NearestDeclared(chain) ==
    IF \A d \in 1..Len(chain) : ~chain[d].some THEN None
    ELSE chain[CHOOSE d \in 1..Len(chain) :
                   chain[d].some /\ \A e \in (d + 1)..Len(chain) : ~chain[e].some]

\* C5: a compiled metric has the type it declares, else the type of its
\* nearest ancestor that declares one, else none.
C5_TypeInherited ==
    endpoint.ok =>
        \A pos \in PositionsOf(config.metrics) :
            MetricAt(endpoint.v.metrics, pos).metric_type
                = NearestDeclared(DeclaredChain(pos))

\* a compiled tree in which a metric and its parent declare no type and the
\* grandparent does
C5_Witness ==
    /\ endpoint.ok
    /\ \E pos \in PositionsOf(config.metrics) :
        /\ Len(pos) >= 3
        /\ DeclaredChain(pos)[1].some
        /\ \A d \in 2..Len(pos) : ~DeclaredChain(pos)[d].some
        /\ MetricAt(endpoint.v.metrics, pos).metric_type.some

\* the type inferred from a value
Inferred(value) ==
    IF value.kind = "string" THEN Some("Untyped")
    ELSE IF value.kind \in {"number", "bool"} THEN Some("Gauge")
    ELSE None

\* the declared type, else the recorded one, else the inferred one
EffectiveType(metric, value) ==
    IF metric.metric_type.some THEN metric.metric_type
    ELSE IF metric.name \in DOMAIN seen_metrics
    THEN Some(seen_metrics[metric.name])
    ELSE Inferred(value)

Accepts(metric_type, value) ==
    CASE metric_type = "Gauge" -> value.kind \in {"number", "bool"}
      [] metric_type = "Counter" -> value.kind = "number"
      [] metric_type = "Untyped" -> value.kind \in {"number", "bool", "string"}

AcceptedBy(metric_type, value) == metric_type.some /\ Accepts(metric_type.v, value)

\* the leaf loop is on a resolved metric whose filters succeed
Sampling == pc = "running" /\ state # <<>> /\ Filtered(Head(state).json).ok

\* the value handed to dump is accepted by the effective type
AcceptedByEffectiveType ==
    With(Filtered(Head(state).json).value, LAMBDA value :
        AcceptedBy(EffectiveType(Head(state).metric, value), value))

\* the step writes a sample line of the resolved metric
Emitted ==
    /\ Len(buf') > Len(buf)
    /\ Last(buf').kind = "sample"
    /\ Last(buf').name = Head(state).metric.name

\* a boolean is written as 1 or 0
BoolRendered(value) ==
    value.kind = "bool" => Last(buf').value = (IF value.b THEN <<"1">> ELSE <<"0">>)

\* C6 as stated: a sample is emitted iff its filtered value is accepted by
\* the effective type (declared, else recorded, else inferred).
C6_EmittedIffAccepted ==
    [][Sampling => (Emitted <=> AcceptedByEffectiveType)]_vars

\* C6: a sample is emitted iff its declared type, if any, does not differ
\* from the type recorded for its name and its filtered value is accepted by
\* the effective type (declared, else recorded, else inferred); an emitted
\* boolean is written as 1 or 0.
C6_EmittedIffAcceptedAndNoConflict ==
    [][Sampling =>
        /\ Emitted <=> (~TypeConflict /\ AcceptedByEffectiveType)
        /\ Emitted => BoolRendered(Filtered(Head(state).json).value)]_vars

\* after some samples were written, a resolved metric whose value its
\* declared type accepts while another type is recorded for its name
C6_Witness ==
    /\ \E i \in SampleIxs : buf[i].value \in {<<"0">>, <<"1">>}
    /\ Sampling /\ TypeConflict /\ AcceptedByEffectiveType

\* the main loop is about to resolve the next metric of the top frame
Visiting ==
    pc = "running" /\ state = <<>> /\ stack # <<>> /\ Top.ix <= Len(Top.metrics)

\* the contexts the next metric is resolved under
ParentEntries ==
    IF Top.parent_state.some THEN Top.parent_state.v ELSE <<root_entry>>

RECURSIVE FoundsUnder(_, _, _)
\* the matches of a metric's selector under each context, in order
FoundsUnder(metric, parents, i) ==
    IF i > Len(parents) THEN <<>>
    ELSE JsonSelector_find(metric.selector, parents[i].json)
         \o FoundsUnder(metric, parents, i + 1)

\* a template has a positional placeholder beyond the end of the path
OutOfRange(tmpl, path) ==
    \E i \in 1..Len(tmpl) : tmpl[i].kind = "VarIx" /\ tmpl[i].ix + 1 >= Len(path)

\* the name or a label of the metric cannot be resolved on the match
ResolutionFails(metric, found) ==
    \/ metric.name_processor.some /\ OutOfRange(metric.name_processor.v, found.path)
    \/ \E i \in 1..Len(metric.labels) :
          OutOfRange(metric.labels[i].value_processor, found.path)

\* the resolved metrics the step produced: the leaf loop's, or the new
\* frame's parent contexts
NewEntries ==
    IF NextMetric.metrics = <<>> THEN state'
    ELSE stack'[Len(stack')].parent_state.v

\* of the matches founds, the step warned once for each that is not among
\* resolved, produced one resolved metric for each that is, in order, and
\* moved the frame on to its next metric
SkipsOnlyFailures(founds, resolved) ==
    /\ Len(warnings') = Len(warnings) + (Len(founds) - Len(resolved))
    /\ SubSeq(warnings', 1, Len(warnings)) = warnings
    /\ \A i \in (Len(warnings) + 1)..Len(warnings') : warnings'[i].level = "Warn"
    /\ Len(NewEntries) = Len(resolved)
    /\ \A i \in 1..Len(resolved) :
        /\ NewEntries[i].json = resolved[i].value
        /\ Last(NewEntries[i].trace).path = resolved[i].path
    /\ stack'[Len(stack)].ix = Top.ix + 1
    /\ pc' = "running"

Resolvable(metric, founds) ==
    SelectSeq(founds, LAMBDA found : ~ResolutionFails(metric, found))

\* C7: a match whose name or labels fail to resolve adds exactly one Warn
\* and no resolved metric (neither a sample nor a context for children);
\* every other match is resolved and the loop goes on to the next metric.
C7_FailedMatchSkipped ==
    [][Visiting =>
        With(FoundsUnder(NextMetric, ParentEntries, 1), LAMBDA founds :
            SkipsOnlyFailures(founds, Resolvable(NextMetric, founds)))]_vars

\* two matches failed on a placeholder index, each with its warning, and a
\* later metric was written
C7_Witness ==
    /\ Len(warnings) >= 2
    /\ warnings[1].msg.text = "Invalid path index"
    /\ warnings[2].msg.text = "Invalid path index"
    /\ SampleIxs # {}

RECURSIVE InOrder(_, _)
\* the last filter applied to what the filters before it gave
InOrder(fs, value) ==
    IF fs = <<>> THEN FilterOk(value)
    ELSE With(InOrder(Front(fs), value), LAMBDA r :
            IF r.ok THEN Filter_apply(Last(fs), r.value) ELSE FilterErr)

\* what a step of the leaf loop does given the result r of the filters
FilterStep(r) ==
    /\ state' = Tail(state)
    /\ IF ~r.ok
       THEN /\ buf' = buf
            /\ seen_metrics' = seen_metrics
            /\ warnings' = Append(warnings,
                                  Warn([text |-> "Error when applying filter"]))
       ELSE /\ buf' # buf =>
                /\ warnings' = warnings
                /\ Last(buf').value = dump_value(r.value)
            /\ buf' = buf =>
                /\ OneWarningMore
                /\ Last(warnings').msg.text = "Error when dumping metric"

\* C8: the filters of a leaf metric are applied in order, each to the
\* result of the one before; if one fails, exactly one warning is added,
\* nothing is written for the sample, and the loop goes on to the next.
C8_FiltersInOrder ==
    [][(pc = "running" /\ state # <<>> /\ filters # <<>>)
       => FilterStep(InOrder(filters, Head(state).json))]_vars

\* under a metric with two filters, a first sample that a filter refused and
\* a second one that was written
C8_Witness ==
    /\ Len(config.metrics[1].modifiers) >= 2
    /\ Len(warnings) = 1
    /\ warnings[1].msg.text = "Error when applying filter"
    /\ \E i \in SampleIxs : Last(Last(buf[i].trace).path) = Key(<<"d">>)

\* the text of a step that is not the root
StepText(step) == IF step.kind = "Key" THEN step.key ELSE ToDecimal(step.ix)

NonRootSteps(path) == SelectSeq(path, LAMBDA step : step.kind # "Root")

RECURSIVE JoinSteps(_)
\* the texts of the steps with a `_` between two of them
JoinSteps(steps) ==
    IF steps = <<>> THEN <<>>
    ELSE IF Len(steps) = 1 THEN StepText(steps[1])
    ELSE StepText(Head(steps)) \o <<"_">> \o JoinSteps(Tail(steps))

\* the levels of a chain that are metrics of the configuration
MetricLevels(trace) == {j \in 1..Len(trace) : trace[j].pos # <<>>}

\* a chain without its j-th level
Without(trace, j) == SubSeq(trace, 1, j - 1) \o SubSeq(trace, j + 1, Len(trace))

\* the configured metric of a level
ConfigOf(level) == MetricAt(config.metrics, level.pos)

\* C9: a metric without a name contributes the `_`-join of the non-root
\* steps of its match path (nothing for the root-only path); a metric with an
\* empty name contributes nothing, and the metric name is that of the chain
\* without it.
C9_AutoName ==
    \A i \in SampleIxs : \A j \in MetricLevels(buf[i].trace) :
        /\ ~ConfigOf(buf[i].trace[j]).name.some =>
               buf[i].trace[j].name = JoinSteps(NonRootSteps(buf[i].trace[j].path))
        /\ ConfigOf(buf[i].trace[j]).name = Some(<<>>) =>
               /\ buf[i].trace[j].name = <<>>
               /\ buf[i].name = JoinNames(TraceNames(Without(buf[i].trace, j)))

\* samples under a nameless metric matched two steps down, under a nameless
\* metric matched at the root, and under an empty-named metric matched one
\* step down
C9_Witness ==
    /\ \E i \in SampleIxs : \E j \in MetricLevels(buf[i].trace) :
          /\ ~ConfigOf(buf[i].trace[j]).name.some
          /\ Len(buf[i].trace[j].path) >= 3
    /\ \E i \in SampleIxs : \E j \in MetricLevels(buf[i].trace) :
          /\ ~ConfigOf(buf[i].trace[j]).name.some
          /\ Len(buf[i].trace[j].path) = 1
    /\ \E i \in SampleIxs : \E j \in MetricLevels(buf[i].trace) :
          /\ ConfigOf(buf[i].trace[j]).name = Some(<<>>)
          /\ Len(buf[i].trace[j].path) >= 2

\* the text is a positional placeholder of step n, in one of its forms
IsPositional(text, n) == \E form \in Forms : text = Positional(form, n)

\* the literal prefixes of the names the configurations give with a
\* positional placeholder
NamePrefixes == {<<"t", "_">>, <<"c", "_">>}

\* the i-th label of a list is the last one of its name
LastOfName(labels, i) ==
    \A i2 \in (i + 1)..Len(labels) : labels[i2].name # labels[i].name

\* the text of step n + 1 of a path counted from 0: its n-th non-root step
NthStepText(path, n) == StepText(path[n + 2])

\* on the level of a metric of a written sample, the labels and the name
\* that are a positional placeholder of step n are compiled to the
\* positional node of n and carry the text of the level's own path
PositionalRendered(level, cfg, prepared, n) ==
    /\ \A l \in 1..Len(cfg.labels) :
        IsPositional(cfg.labels[l].value, n) =>
            /\ prepared.labels[l].value_processor = <<VarIx(n)>>
            /\ n + 2 <= Len(level.path)
            /\ LastOfName(cfg.labels, l) =>
                   level.labels[cfg.labels[l].name] = NthStepText(level.path, n)
    /\ \A prefix \in NamePrefixes :
        (cfg.name.some /\ \E form \in Forms :
                             cfg.name.v = prefix \o Positional(form, n)) =>
            /\ prepared.name_processor.v = <<PText(prefix), VarIx(n)>>
            /\ n + 2 <= Len(level.path)
            /\ level.name = prefix \o NthStepText(level.path, n)

\* C10: `$N`, `${N}` and `${ N }` compile to the same positional node, and
\* it renders the step at position N + 1 of the path of the match of the
\* metric's own selector.
C10_PositionalPlaceholder ==
    /\ \A form \in Forms, n \in 0..MaxIx :
        TemplateProcessor_create_from(Positional(form, n)) = Done(<<VarIx(n)>>)
    /\ \A i \in SampleIxs : \A j \in MetricLevels(buf[i].trace) :
        \A n \in 0..MaxIx :
            PositionalRendered(buf[i].trace[j], ConfigOf(buf[i].trace[j]),
                               MetricAt(endpoint.v.metrics, buf[i].trace[j].pos),
                               n)

\* a sample of a child metric with a label written `${ 0 }` whose value is
\* the first step below the parent's match, not the first step of the
\* document
C10_Witness ==
    \E i \in SampleIxs : \E j \in MetricLevels(buf[i].trace) :
        /\ (j - 1) \in MetricLevels(buf[i].trace)
        /\ Len(buf[i].trace[j - 1].path) >= 2
        /\ \E l \in 1..Len(ConfigOf(buf[i].trace[j]).labels) :
            /\ ConfigOf(buf[i].trace[j]).labels[l].value = Positional("spaced", 0)
            /\ \E k \in 1..Len(buf[i].labels) :
                /\ buf[i].labels[k][1] = ConfigOf(buf[i].trace[j]).labels[l].name
                /\ buf[i].labels[k][2] = NthStepText(buf[i].trace[j].path, 0)
                /\ buf[i].labels[k][2] # NthStepText(buf[i].trace[j - 1].path, 0)

\* ------------------------------------------------------------------------
\* Properties of the compiler
\* ------------------------------------------------------------------------

\* a `${` starts at position i of a template
OpensAt(t, i) == i < Len(t) /\ t[i] = "$" /\ t[i + 1] = "{"

\* the positions where a placeholder opened at i can close
ClosesAfter(t, i) == {j \in (i + 2)..Len(t) : t[j] = "}"}

\* the text between the `${` at i and the first `}` after it
BodyOf(t, i) ==
    SubSeq(t, i + 2, (CHOOSE j \in ClosesAfter(t, i) :
                         \A j2 \in ClosesAfter(t, i) : j <= j2) - 1)

\* a text without the white space around it
Trim(text) == TrimEnd(Drop(text, SpanLen(text, SpaceSet)))

\* a body that is an unsigned integer or a selector
BodyValid(body) ==
    /\ body # <<>>
    /\ \/ \A i \in 1..Len(body) : body[i] \in DigitSet
       \/ body[1] \in {"$", "."}

\* a template with a `${` that is never closed, or with a `${...}` whose
\* body is neither an unsigned integer nor a selector
Malformed(t) ==
    \E i \in 1..Len(t) :
        /\ OpensAt(t, i)
        /\ \/ ClosesAfter(t, i) = {}
           \/ ~BodyValid(Trim(BodyOf(t, i)))

\* the templates of the configured metrics: names and label values
TemplatesOf(metrics) ==
    {MetricAt(metrics, pos).name.v :
        pos \in {q \in PositionsOf(metrics) : MetricAt(metrics, q).name.some}}
    \cup UNION {{MetricAt(metrics, pos).labels[l].value :
                    l \in 1..Len(MetricAt(metrics, pos).labels)} :
                pos \in PositionsOf(metrics)}

\* C11: a template with an unterminated `${`, or with a `${...}` whose body
\* is neither an unsigned integer nor a selector, does not compile, wherever
\* the placeholder is; a template that compiles stands for the whole input.
C11_TemplateWholeOrRejected ==
    \A t \in TemplatesOf(config.metrics) :
        /\ Malformed(t) => ~TemplateProcessor_create_from(t).ok /\ ~endpoint.ok
        /\ (t # <<>> /\ TemplateProcessor_create_from(t).ok) =>
               string_with_placeholders(t).rest = <<>>

\* a template that is one bracketed placeholder
Bracketed(t) ==
    /\ OpensAt(t, 1)
    /\ ClosesAfter(t, 1) = {Len(t)}

\* a bracketed placeholder whose body is a selector: it begins with `.` or
\* `$` and is not a number
IsSelectorPlaceholder(t) ==
    /\ Bracketed(t)
    /\ Trim(BodyOf(t, 1)) # <<>>
    /\ Trim(BodyOf(t, 1))[1] \in {".", "$"}

RECURSIVE DotKeys(_)
\* the keys of a selector `.k1.k2...`
DotKeys(text) ==
    IF text = <<>> THEN <<>>
    ELSE With(SpanNotLen(Tail(text), {"."}), LAMBDA n :
            <<SubSeq(text, 2, n + 1)>> \o DotKeys(Drop(text, n + 1)))

\* the keys a selector placeholder names, with or without the leading `$`
SelectorKeys(t) ==
    With(Trim(BodyOf(t, 1)), LAMBDA body :
        DotKeys(IF body[1] = "$" THEN Tail(body) ELSE body))

\* the member of an object under a key, if any
Member(value, key) ==
    IF value.kind = "object"
       /\ \E i \in 1..Len(value.fields) : value.fields[i][1] = key
    THEN Some(value.fields[CHOOSE i \in 1..Len(value.fields) :
                              value.fields[i][1] = key][2])
    ELSE None

RECURSIVE Descend(_, _)
\* the value reached from value by a list of keys, if any
Descend(value, keys) ==
    IF keys = <<>> THEN Some(value)
    ELSE IF ~Member(value, Head(keys)).some THEN None
    ELSE Descend(Member(value, Head(keys)).v, Tail(keys))

RECURSIVE ValueAt(_, _)
\* the value at a match path of a document
ValueAt(value, path) ==
    IF path = <<>> THEN value
    ELSE IF Head(path).kind = "Root" THEN ValueAt(value, Tail(path))
    ELSE IF Head(path).kind = "Key"
    THEN ValueAt(Member(value, Head(path).key).v, Tail(path))
    ELSE ValueAt(value.items[Head(path).ix + 1], Tail(path))

\* the text a selected value renders as
SelectedText(selected) ==
    IF ~selected.some THEN <<>>
    ELSE IF selected.v.kind = "string" THEN selected.v.s
    ELSE IF selected.v.kind = "bool"
    THEN (IF selected.v.b THEN <<"t", "r", "u", "e">>
          ELSE <<"f", "a", "l", "s", "e">>)
    ELSE IF selected.v.kind = "number" THEN NumberText(selected.v)
    ELSE <<>>

\* the labels of the top-level metrics that are selector placeholders
SelectorLabels ==
    {<<i, l>> \in (1..Len(config.metrics)) \X (1..1) :
        /\ l <= Len(config.metrics[i].labels)
        /\ IsSelectorPlaceholder(config.metrics[i].labels[l].value)}

\* C12: a bracketed placeholder whose trimmed body begins with `.` or `$`
\* compiles to a selector placeholder, and both spellings resolve to the
\* first match of the selector inside the value of the current match.
C12_SelectorPlaceholder ==
    \A il \in SelectorLabels :
        With(config.metrics[il[1]].labels[il[2]], LAMBDA label :
            /\ TemplateProcessor_create_from(label.value).ok
            /\ Len(TemplateProcessor_create_from(label.value).v) = 1
            /\ TemplateProcessor_create_from(label.value).v[1].kind = "VarIdent"
            /\ endpoint.ok
            /\ \A i \in SampleIxs : \A j \in 1..Len(buf[i].trace) :
                buf[i].trace[j].pos = <<il[1]>> =>
                    buf[i].trace[j].labels[label.name] =
                        SelectedText(Descend(ValueAt(json, buf[i].trace[j].path),
                                             SelectorKeys(label.value))))

\* the filter each built-in name stands for
BuiltinKind(name) ==
    CASE name \in {<<"m", "u", "l">>, <<"m", "u", "l", "t", "i", "p", "l", "y">>}
            -> Some("Multiply")
      [] name \in {<<"d", "i", "v">>, <<"d", "i", "v", "i", "d", "e">>}
            -> Some("Divide")
      [] name = <<"c", "o", "n", "s", "t">> -> Some("Const")
      [] name = <<"e", "q">> -> Some("Equal")
      [] OTHER -> None

\* a number, or a list of one number
OneNumber(args) ==
    \/ args.kind = "number"
    \/ args.kind = "array" /\ Len(args.items) = 1 /\ args.items[1].kind = "number"

\* a number, a string or a boolean, or a list of one value
OneScalar(args) ==
    \/ args.kind \in {"number", "string", "bool"}
    \/ args.kind = "array" /\ Len(args.items) = 1

\* the arguments a filter of a kind is made from
ValidArgs(kind, args) ==
    IF kind \in {"Multiply", "Divide"} THEN OneNumber(args) ELSE OneScalar(args)

\* the modifiers of the configured metrics
ModifiersOf(metrics) ==
    UNION {{MetricAt(metrics, pos).modifiers[i] :
                i \in 1..Len(MetricAt(metrics, pos).modifiers)} :
            pos \in PositionsOf(metrics)}

\* C13: a modifier named mul, multiply, div, divide, const or eq with valid
\* arguments compiles to the corresponding filter, and a modifier of any
\* other name does not compile.
C13_FilterRegistry ==
    \A f \in ModifiersOf(config.metrics) :
        /\ (BuiltinKind(f.name).some /\ ValidArgs(BuiltinKind(f.name).v, f.args)) =>
               /\ Filter_prepare(f).ok
               /\ Filter_prepare(f).v.kind = BuiltinKind(f.name).v
        /\ ~BuiltinKind(f.name).some => ~Filter_prepare(f).ok /\ ~endpoint.ok

\* ------------------------------------------------------------------------
\* Properties of the labels of a sample line
\* ------------------------------------------------------------------------

\* the texts the escape mapping is compared on have at most MaxText
\* characters
MaxText == 3

EscapeTexts == Lists({"\"", "\\", "\n", "n"}, MaxText)

\* each of them beside the label value stored for it
StoredTexts == {<<text, safe_value(text)>> : text \in EscapeTexts}

\* the backslash sequence of a character
EscapeOf(c) ==
    CASE c = "\"" -> <<"\\", "\"">>
      [] c = "\n" -> <<"\\", "n">>
      [] c = "\\" -> <<"\\", "\\">>
      [] OTHER -> <<c>>

\* a text with each of its characters escaped
Escaped(text) == Concat([i \in 1..Len(text) |-> EscapeOf(text[i])])

RECURSIVE Unescaped(_)
\* the inverse mapping: a backslash and the character after it stand for one
\* character
Unescaped(text) ==
    IF text = <<>> THEN <<>>
    ELSE IF text[1] = "\\" /\ Len(text) >= 2
    THEN <<IF text[2] = "n" THEN "\n" ELSE text[2]>> \o Unescaped(Drop(text, 2))
    ELSE <<text[1]>> \o Unescaped(Tail(text))

\* a template of plain text
Literal(tmpl) == \A i \in 1..Len(tmpl) : tmpl[i] # "$"

\* the labels configured at a level of a chain: a metric's, or the global
\* labels at the root
LabelsOfLevel(level) ==
    IF level.pos = <<>> THEN global_labels ELSE ConfigOf(level).labels

\* the text configured for key k at a level that sets it
RawLabel(level, k) ==
    With(LabelsOfLevel(level), LAMBDA labels :
        labels[CHOOSE l \in 1..Len(labels) :
                  labels[l].name = k /\ LastOfName(labels, l)].value)

\* the label texts of the configuration
LabelTexts ==
    {global_labels[l].value : l \in 1..Len(global_labels)}
    \cup UNION {{MetricAt(config.metrics, pos).labels[l].value :
                    l \in 1..Len(MetricAt(config.metrics, pos).labels)} :
                pos \in PositionsOf(config.metrics)}

\* the text configured for the l-th label of the i-th sample line, at the
\* nearest level that sets its key
RawOf(i, l) ==
    RawLabel(buf[i].trace[Nearest(LevelsSetting(buf[i].trace, buf[i].labels[l][1]))],
             buf[i].labels[l][1])

\* C14: a label value is escaped once, when it is resolved: no two texts are
\* stored as the same value, and a sample line carries, for a label of plain
\* text set at any level of its chain or by the global labels, the escaped
\* text, from which the inverse mapping gives the text back.
C14_EscapedOnce ==
    /\ \A text \in LabelTexts : \A st \in StoredTexts :
        st[2] = safe_value(text) => st[1] = text
    /\ \A i \in SampleIxs : \A l \in 1..Len(buf[i].labels) :
        Literal(RawOf(i, l)) =>
            /\ buf[i].labels[l][2] = Escaped(RawOf(i, l))
            /\ Unescaped(buf[i].labels[l][2]) = RawOf(i, l)

\* a sample line with an escaped label value that comes from the global
\* labels through two merges
C14_Witness ==
    \E i \in SampleIxs : \E l \in 1..Len(buf[i].labels) :
        /\ Len(buf[i].trace) >= 4
        /\ Nearest(LevelsSetting(buf[i].trace, buf[i].labels[l][1])) = 1
        /\ Literal(RawOf(i, l))
        /\ buf[i].labels[l][2] # RawOf(i, l)

RECURSIVE LexLess(_, _)
\* a is before b in the lexicographic order of the code points
LexLess(a, b) ==
    IF b = <<>> THEN FALSE
    ELSE IF a = <<>> THEN TRUE
    ELSE IF Head(a) = Head(b) THEN LexLess(Tail(a), Tail(b))
    ELSE CharCode(Head(a)) < CharCode(Head(b))

\* the position of the label of a key in the configured list of a level, or
\* 0 when the level does not declare it
DeclaredAt(level, k) ==
    With(LabelsOfLevel(level), LAMBDA labels :
        IF \E l \in 1..Len(labels) : labels[l].name = k
        THEN CHOOSE l \in 1..Len(labels) : labels[l].name = k /\ LastOfName(labels, l)
        ELSE 0)

\* C15: on every sample line the label keys are in strictly increasing
\* lexicographic order, so no key is written twice, however the labels were
\* declared and whichever level set them.
C15_LabelKeysOrdered ==
    \A i \in SampleIxs : \A l \in 1..(Len(buf[i].labels) - 1) :
        LexLess(buf[i].labels[l][1], buf[i].labels[l + 1][1])

\* a sample line with a global label, a parent's label and two labels of its
\* own metric that are declared in the opposite order
C15_Witness ==
    \E i \in SampleIxs : \E l1, l2, l3, l4 \in 1..Len(buf[i].labels) :
        /\ l1 < l2
        /\ DeclaredAt(Last(buf[i].trace), buf[i].labels[l1][1])
              > DeclaredAt(Last(buf[i].trace), buf[i].labels[l2][1])
        /\ DeclaredAt(Last(buf[i].trace), buf[i].labels[l2][1]) > 0
        /\ Nearest(LevelsSetting(buf[i].trace, buf[i].labels[l3][1])) = 1
        /\ Nearest(LevelsSetting(buf[i].trace, buf[i].labels[l4][1]))
              \in 2..(Len(buf[i].trace) - 1)

\* ------------------------------------------------------------------------
\* Properties of the cache of the /metrics response
\* ------------------------------------------------------------------------

\* the requests whose process_metrics is in progress
Scraping == {r \in 1..NumRequests : requests[r].at = "process_metrics"}

\* the step is a step of request r alone
StepOf(r) ==
    /\ requests'[r] # requests[r]
    /\ \A r2 \in 1..NumRequests \ {r} : requests'[r2] = requests[r2]

\* request r holds the writer's guard: before the step, or from the step on
\* when the step is the one in which it takes the guard
HoldsWriter(r) ==
    \/ requests[r].at = "process_metrics" /\ lock.exclusive
    \/ /\ requests[r].at = "try_write" /\ ~lock.exclusive /\ lock.num_readers = 0
       /\ requests'[r].at = "process_metrics" /\ lock'.exclusive

\* C16: at most one scrape is in progress at any time, and the cache (buf,
\* err, expired_at) is changed only by a step of the request that holds the
\* writer's guard.
C16_SingleWriter ==
    /\ [](/\ Cardinality(Scraping) <= 1
          /\ Scraping # {} => lock.exclusive /\ lock.num_readers = 0)
    /\ [][cache' # cache =>
             \E r \in 1..NumRequests : StepOf(r) /\ HoldsWriter(r)]_vars

\* after an earlier scrape has ended, a scrape is in progress while a request
\* that found the writer busy waits for it
C16_Witness ==
    /\ Scraping # {}
    /\ completed.some
    /\ \E r \in 1..NumRequests :
        requests[r].at = "read_stale" /\ requests[r].busy = "writer"

\* C17: a request that finds the cache expired while another request holds
\* the writer's guard does not wait for the scrape in progress: the read it
\* falls back to is ready at once.
C17_StaleWithoutWaiting ==
    \A r \in 1..NumRequests :
        (requests[r].at = "read_stale" /\ requests[r].busy = "writer") =>
            read_ready(lock)

\* C18: no response carries the error of a cache that was never written.
C18_NoSentinelResponse ==
    \A r \in 1..NumRequests :
        requests[r].resp.some => requests[r].resp.v.err # "CacheNotInitialized"

\* request r arrived after a scrape that ended well (or with an error) had
\* ended last, and was answered before the result of that scrape expired
AnsweredWithin(r, failed) ==
    /\ requests[r].resp.some
    /\ requests[r].last.some
    /\ requests[r].last.v.err.some = failed
    /\ requests[r].answered < requests[r].last.v.at + CacheTtl

\* C19: a request that arrives after a successful scrape and before its
\* result expires is answered with the body of that scrape and starts no
\* scrape; a request starts a scrape only after it has observed the cache
\* expired.
C19_FreshServedFromCache ==
    /\ \A r \in 1..NumRequests :
        AnsweredWithin(r, FALSE) =>
            /\ requests[r].resp.v = prometheus_response(Body(requests[r].last.v.scrape))
            /\ requests[r].scrape = 0
    /\ \A r \in 1..NumRequests :
        requests[r].scrape # 0 => requests[r].observed = "expired"

\* C20: the error a scrape ends with is stored and expires after cache_ttl;
\* a request that arrives after that scrape and before the error expires is
\* answered with that error, with status 504 for a timeout and 500 for any
\* other error, not with a body, and starts no scrape.
C20_ErrorCached ==
    /\ (completed.some /\ Scraping = {}) =>
           /\ cache.err = completed.v.err
           /\ cache.expired_at = completed.v.at + CacheTtl
    /\ \A r \in 1..NumRequests :
        AnsweredWithin(r, TRUE) =>
            /\ requests[r].resp.v.kind = "error"
            /\ requests[r].resp.v.err = requests[r].last.v.err.v
            /\ requests[r].resp.v.status =
                   (IF requests[r].last.v.err.v = "Timeout" THEN 504 ELSE 500)
            /\ requests[r].resp.v.body = <<>>
            /\ requests[r].scrape = 0

\* ------------------------------------------------------------------------
\* the URL of an endpoint
\* ------------------------------------------------------------------------

\* C25: composing the same base URL, endpoint URL, url_parts and override
\* twice gives identical URL strings, the order of the query parameters
\* included
C25_SameUrlTwice ==
    \A i, j \in DOMAIN urls :
        (urls[i].ok /\ urls[j].ok) => Url_as_str(urls[i].v) = Url_as_str(urls[j].v)

\* a URL in name form: it does not start with a slash
NameForm(u) == u = <<>> \/ u[1] # "/"

\* the text before the first question mark, the path name, is there
HasName(u) == u # <<>> /\ u[1] # "?"

HasQuestion(u) == \E i \in 1..Len(u) : u[i] = "?"

OwnUrl == url_args.endpoint.url

Override == url_args.overriden_endpoint_url

\* the non-empty pieces between the slashes of a path
Pieces_of(path) == SelectSeq(split(path, "/"), LAMBDA p : p # <<>>)

\* the path segments the endpoint's own URL selects: the path it names in
\* url_parts, or the path it spells out
OwnSegments ==
    IF NameForm(OwnUrl)
    THEN Pieces_of(url_args.endpoint.url_parts.paths[Take(OwnUrl, SpanNotLen(OwnUrl, {"?"}))])
    ELSE Pieces_of(Take(OwnUrl, SpanNotLen(OwnUrl, {"?"})))

\* the segments of the base URL, the empty one at its end left out
BaseSegments == SelectSeq(url_args.base_url.path, LAMBDA p : p # <<>>)

\* the segments of a composed URL
SegmentsOf(url) == SelectSeq(url.path, LAMBDA p : p # <<>>)

\* C26: an endpoint's own URL in name form that names no path is rejected
\* with the error that a path is mandatory; after an override in name form
\* that names no path the composed URL has exactly the path segments the
\* endpoint's own URL selects
C26_PathMandatoryForOwnUrl ==
    \A i \in DOMAIN urls :
        /\ (NameForm(OwnUrl) /\ ~HasName(OwnUrl)) => urls[i] = UrlErr("Path is mandatory")
        /\ (urls[i].ok /\ Override.some /\ NameForm(Override.v) /\ ~HasName(Override.v))
            => SegmentsOf(urls[i].v) = BaseSegments \o OwnSegments

C26_Witness ==
    /\ urls # <<>>
    /\ urls[1].ok
    /\ Override.some
    /\ NameForm(Override.v)
    /\ ~HasName(Override.v)
    /\ HasQuestion(Override.v)
    /\ OwnSegments # <<>>
    /\ BaseSegments # <<>>

\* the parameter keys a URL in name form lists after its question mark
NamedKeys(u) ==
    {k \in {SubSeq(u, i, j) : i, j \in 1..Len(u)} :
        \E i, j \in 1..Len(u) :
            /\ k = SubSeq(u, i, j)
            /\ i <= j
            /\ i > SpanNotLen(u, {"?"}) + 1
            /\ \A n \in i..j : u[n] # "&"
            /\ u[i - 1] \in {"?", "&"}
            /\ j = Len(u) \/ u[j + 1] = "&"}

\* the query parameters these keys stand for in url_parts
NamedParams(keys) ==
    [name \in {url_args.endpoint.url_parts.params[k].name : k \in keys} |->
        With((CHOOSE k \in keys : url_args.endpoint.url_parts.params[k].name = name),
             LAMBDA k : IF url_args.endpoint.url_parts.params[k].value.some
                        THEN url_args.endpoint.url_parts.params[k].value.v
                        ELSE <<>>)]

\* C27: a URL in name form applied on top of a patch: with a question mark
\* it replaces the accumulated query parameters by exactly the parameters
\* it names (none when the list is empty), without one it leaves them as
\* they are, and with a path name it replaces the accumulated path segments
C27_NameFormOnTopOfPatch ==
    [][(/\ AddOverride
        /\ Override.some
        /\ NameForm(Override.v)
        /\ url_patch'.ok)
       => /\ HasQuestion(Override.v)
                => url_patch'.v.query_params = NamedParams(NamedKeys(Override.v))
          /\ ~HasQuestion(Override.v)
                => url_patch'.v.query_params = url_patch.v.query_params
          /\ HasName(Override.v)
                => url_patch'.v.path_segments =
                     split(url_args.endpoint.url_parts.paths[
                               Take(Override.v, SpanNotLen(Override.v, {"?"}))], "/")]_vars

\* what the endpoint's own URL alone leaves in the patch
OwnPatch ==
    UrlPatch_add_endpoint_url(UrlPatch_default, OwnUrl, url_args.endpoint.url_parts, TRUE)

C27_Witness ==
    /\ url_at = "apply"
    /\ Override.some
    /\ NameForm(Override.v)
    /\ HasQuestion(Override.v)
    /\ HasName(Override.v)
    /\ OwnPatch.v.query_params # EmptyMap
    /\ url_patch.v.query_params # OwnPatch.v.query_params
    /\ url_patch.v.path_segments # OwnPatch.v.path_segments

\* the base URL with a slash at its end if it has none, without it if it
\* has one; http://h and http://h/ are the same URL
Slashed(url) ==
    IF url.path = << <<>> >> THEN url
    ELSE IF url.path[Len(url.path)] = <<>>
    THEN [url EXCEPT !.path = Take(url.path, Len(url.path) - 1)]
    ELSE [url EXCEPT !.path = Append(url.path, <<>>)]

\* no segment of the path is empty; the path / has no segment
NoEmptySegment(path) == path = << <<>> >> \/ \A i \in DOMAIN path : path[i] # <<>>

\* C28: apply composes the same URL from a base with a slash at its end
\* and from the base without it, and no path segment of the URL is empty
C28_TrailingSlashOfBase ==
    (url_at = "done" /\ urls[Len(urls)].ok)
        => /\ urls[Len(urls)] \in UrlPatch_apply(url_patch.v, Slashed(url_args.base_url))
           /\ NoEmptySegment(urls[Len(urls)].v.path)

C28_Witness ==
    /\ url_at = "done"
    /\ urls[Len(urls)].ok
    /\ Len(url_args.base_url.path) > 1
    /\ url_args.base_url.path[Len(url_args.base_url.path)] = <<>>
    /\ \E i, j \in DOMAIN url_patch.v.path_segments :
          /\ i < j
          /\ url_patch.v.path_segments[i] = <<>>
          /\ url_patch.v.path_segments[j] # <<>>
    /\ Len(urls[Len(urls)].v.path) > Len(url_args.base_url.path)

\* ------------------------------------------------------------------------
\* the traversal of the tree of metrics
\* ------------------------------------------------------------------------

RECURSIVE Preorder(_, _, _)
\* the positions of the metrics from the i-th on and of their descendants,
\* every metric before its children, the siblings in configuration order
Preorder(metrics, pos, i) ==
    IF i > Len(metrics) THEN <<>>
    ELSE <<Append(pos, i)>>
         \o Preorder(metrics[i].metrics, Append(pos, i), 1)
         \o Preorder(metrics, pos, i + 1)

RECURSIVE Depth(_)
\* the number of levels of a tree of metrics
Depth(metrics) ==
    IF metrics = <<>> THEN 0
    ELSE 1 + With({Depth(metrics[i].metrics) : i \in DOMAIN metrics},
                  LAMBDA ds : CHOOSE d \in ds : \A e \in ds : e <= d)

\* the resolved metrics of a metric taken one context of its parent after
\* the other
PerContext(metric, pos, contexts) ==
    Concat([i \in DOMAIN contexts |->
              resolve_into(metric, pos, contexts[i],
                           [resolved_metrics |-> <<>>, warnings |-> <<>>]).resolved_metrics])

\* the iterator of the top frame returns a metric
Visits == VisitLeaf \/ VisitParent

\* the stack and the visits while process runs: the metrics visited are the
\* first ones of the tree in pre-order, the stack has at most one frame
\* more than the tree has levels, and process returns with an empty stack
\* and every metric visited
TraversalInv ==
    endpoint.ok =>
        /\ visited = Take(Preorder(endpoint.v.metrics, <<>>, 1), Len(visited))
        /\ Len(visited) <= Len(Preorder(endpoint.v.metrics, <<>>, 1))
        /\ Len(stack) <= Depth(endpoint.v.metrics) + 1
        /\ pc = "returned" =>
              /\ stack = <<>>
              /\ visited = Preorder(endpoint.v.metrics, <<>>, 1)

\* a metric is visited when the metric before it has been written, and it
\* is resolved against every context of its parent in that visit, the
\* contexts being none or more
TraversalStep ==
    Visits =>
        /\ state = <<>>
        /\ Top.parent_state.some =>
              /\ NextMetric.metrics = <<>>
                    => state' = PerContext(NextMetric, NextPos, Top.parent_state.v)
              /\ NextMetric.metrics # <<>>
                    => stack'[Len(stack')].parent_state =
                          Some(PerContext(NextMetric, NextPos, Top.parent_state.v))

\* C29: process terminates with an empty stack, having visited every metric
\* of the endpoint's tree exactly once, depth first and in pre-order, the
\* siblings in configuration order, the children of a parent with no
\* context included; a child meets all the contexts of its parent before
\* the next sibling is visited; the stack never has more frames than the
\* tree has levels plus one
C29_TraversalTerminates ==
    /\ []TraversalInv
    /\ [][TraversalStep]_vars
    /\ (pc = "running") ~> (pc = "returned" /\ stack = <<>>)

C29_Witness ==
    /\ pc = "returned"
    /\ Len(visited) >= 3
    /\ \E i \in DOMAIN endpoint.v.metrics :
          /\ endpoint.v.metrics[i].metrics # <<>>
          /\ resolve_into(endpoint.v.metrics[i], <<i>>, root_entry,
                          [resolved_metrics |-> <<>>, warnings |-> <<>>]).resolved_metrics = <<>>
          /\ \E k \in DOMAIN visited : visited[k] = <<i, 1>>

\* ------------------------------------------------------------------------
\* the scrape
\* ------------------------------------------------------------------------

\* a body that is the whole output of a scrape: for each endpoint, in the
\* order of the configuration, what it writes for a document
CompleteBody(body) ==
    /\ Len(body) = NumEndpoints
    /\ \A i \in DOMAIN body :
          \E text \in Texts(i) : text.valid /\ <<body[i]>> = process(i, from_str(text).v)

\* try_join_all returns to the handler
Joins == \E r \in 1..NumRequests : Join(r)

\* the errors of the endpoints of the scrape: a fetch that failed or timed
\* out, or, all fetches having returned, a text that is not JSON
ErrorsOfEndpoints ==
    IF \E i \in DOMAIN fetches : Failed(fetches[i])
    THEN {fetches[i].result.err : i \in {j \in DOMAIN fetches : Failed(fetches[j])}}
    ELSE {"Json" : i \in {j \in DOMAIN fetches : ~fetches[j].result.v.valid}}

\* a cache that can be read and holds no error holds a whole body, and so
\* does every response with status 200
NoPartialBody ==
    /\ (~lock.exclusive /\ ~cache.err.some) => CompleteBody(cache.buf)
    /\ \A r \in DOMAIN requests :
          (requests[r].resp.some /\ requests[r].resp.v.status = 200)
              => CompleteBody(requests[r].resp.v.body)

\* a scrape with an error of an endpoint ends with such an error stored
ErrorIsResult ==
    (Joins /\ ErrorsOfEndpoints # {})
        => /\ cache'.err.some
           /\ cache'.err.v \in ErrorsOfEndpoints

\* C21: when a fetch of a scrape fails or times out, or a body is not
\* JSON, the result of the scrape is that error; a cache that can be read
\* and holds no error holds the whole output of a successful scrape, and
\* so does every response with status 200
C21_NoPartialBody == []NoPartialBody /\ [][ErrorIsResult]_vars

C21_Witness ==
    /\ ~lock.exclusive
    /\ cache.err = Some("Json")
    /\ cache.buf # <<>>
    /\ \E r \in DOMAIN requests :
          requests[r].resp.some /\ requests[r].resp.v.status = 200

\* C22: the body of a successful scrape is the output of the first
\* endpoint for the response to its own fetch, then that of the second for
\* its own, and so on, in whatever order the fetches ended
C22_BodyInConfigurationOrder ==
    [][(Joins /\ ~cache'.err.some)
        => cache'.buf = Concat([i \in DOMAIN fetches |->
                                  process(i, from_str(fetches[i].result.v).v)])]_vars

\* a scrape has ended well whose second fetch ended before its first
C22_Witness ==
    /\ completed.some
    /\ ~completed.v.err.some
    /\ ~lock.exclusive
    /\ CompleteBody(cache.buf)
    /\ Len(finished) = NumEndpoints
    /\ finished[1] = 2


\* the fetches in flight: the permit is acquired and the future has not
\* ended
InFlight == {i \in DOMAIN fetches : fetches[i].at = "fetching"}

\* C23: at every moment at most `concurrency` fetches are in flight
C23_BoundedFetches == Cardinality(InFlight) <= concurrency

C23_Witness ==
    /\ concurrency = 1
    /\ Cardinality(InFlight) = 1
    /\ \E i \in DOMAIN fetches : fetches[i].at = "acquire"

\* C24: every request to /metrics is answered in the end, whatever the
\* configured concurrency
C24_EveryRequestAnswered ==
    \A r \in 1..NumRequests : (requests[r].at # "idle") ~> (requests[r].at = "done")

\* C30: a fetch ends with Timeout only at or after the deadline that is
\* request_timeout after its own start, its start being no earlier than
\* the acquisition of its permit, and with anything else only up to that
\* deadline
C30_DeadlineFromOwnStart ==
    \A i \in DOMAIN fetches :
        fetches[i].at = "ready"
            => /\ fetches[i].start >= fetches[i].queued
               /\ fetches[i].result = UrlErr("Timeout")
                     => fetches[i].ended >= fetches[i].start + RequestTimeout
               /\ fetches[i].result # UrlErr("Timeout")
                     => fetches[i].ended <= fetches[i].start + RequestTimeout

C30_Witness ==
    \E i, j \in DOMAIN fetches :
        /\ fetches[i].at = "ready"
        /\ fetches[j].at = "ready"
        /\ fetches[i].start > fetches[i].queued
        /\ fetches[i].result = UrlErr("Timeout")
        /\ fetches[i].ended = fetches[i].start + RequestTimeout
        /\ fetches[j].start > fetches[j].queued
        /\ fetches[j].result.ok
        /\ fetches[j].ended > fetches[j].queued + RequestTimeout

====
